---- MODULE Spec2Model ----
(***************************************************************************)
(* Multi-device enactor of the gunrock graph engine: the controller/worker *)
(* handshake of CCEnactor and BCEnactor, the per-device iteration loops of *)
(* connected components and of betweenness centrality (forward phase,      *)
(* barrier, backward phase with its forward_queue_offsets log), and the    *)
(* work-progress counters used by the load-balanced advance kernels.       *)
(***************************************************************************)
EXTENDS Integers, Sequences, FiniteSets, TLC

\* ------------------------------------------------------------------ bounds
MaxGpus == 2
MaxIter == 3
MaxLen == 2
MaxRuns == 2
MaxFaults == 1
MaxTurn == 2
MaxSteps == 4
NumBlocks == 2
PartitionSize == 2
NumVertices == 3
MaxDegree == 2
MaxFrontier == 3
THREADS == 2
BLOCKS == 2
MaxCoreSteps == 8
MaxRequest == 4
NumKeys == 2
NumPeers == 2
MaxValue == 2
NumCCVertices == 4
MaxStreamIter == 3
MaxNodes == 3
NumBoundaryGpus == 3
\* 32-bit values: limits.h, and (Value)0xffffffff as a signed value
INT_MAX == 2147483647
INT_MIN == -INT_MAX - 1
ALL_ONES == -1

\* ------------------------------------------------------------- state
VARIABLES
    alg,                    \* "BC" or "CC": which enactor is instantiated
    num_gpus,               \* EnactorBase::num_gpus
    src_gpu,                \* partition_tables[0][src]: owner of the source
    cpc,                    \* position of the calling thread (test driver / Enact)
    cgpu,                   \* loop index gpu of the controller's wait loops
    runs,                   \* number of Enact calls made so far
    enact_retval,           \* value returned by the last Enact
    stats,                  \* thread_slices[gpu].stats
    wpc,                    \* position of each worker thread
    init_size,              \* thread_slices[gpu].init_size
    retval,                 \* enactor_stats[slot].retval, slot = gpu*num_gpus+peer
    faults,                 \* number of device faults injected so far
    iteration,              \* enactor_stats[gpu*num_gpus].iteration
    queue_length,           \* frontier_attribute[gpu*num_gpus].queue_length
    queue_index,            \* frontier_attribute[gpu*num_gpus].queue_index
    selector,               \* frontier_attribute[gpu*num_gpus].selector
    fq_selector,            \* frontier_queue->selector (DoubleBuffer member)
    keys,                   \* frontier_queue->keys[0..1], contents per device
    forward_queue_offsets,  \* data_slice->forward_queue_offsets[0]
    forward_output,         \* data_slice->forward_output[0]
    cpu_barrier,            \* arrivals at cpu_barrier[0], cpu_barrier[1]
    boundary_written,       \* worker has written its boundary sigmas/labels
    turn,                   \* data_slice->turn (CC)
    in_length,              \* data_slice->in_length[.][peer], summed over buffers
    out_length,             \* data_slice->out_length[peer]
    recorded,               \* history: frontiers recorded by the forward phase
    fwd_iters,              \* history: forward loop bodies executed
    bwd_iters,              \* history: backward loop bodies executed
    bwd_inputs,             \* history: input frontier of each backward advance
    gather_kind,            \* history: how the last backward gather read the log
    d_counters,             \* work_progress.d_counters[0 .. QUEUE_COUNTERS)
    wp_pc,                  \* "host" between kernels, "kernel" while one runs
    wp_steps,               \* number of advance/filter steps launched
    wp_queue_index,         \* frontier_attribute.queue_index of the stream
    wp_queue_reset,         \* frontier_attribute.queue_reset
    wp_queue_length,        \* frontier_attribute.queue_length on the host
    input_queue_len,        \* kernel local of block 0, thread 0
    output_queue_len,       \* output_queue_len[0]: scanned output size
    blocks_todo,            \* thread blocks of the running kernel not yet run
    d_out_count,            \* history: elements written to d_out by the kernel
    produced,               \* history: output size of the previous step
    row_offsets,            \* graph_slice->row_offsets[0 .. nodes]
    d_queue,                \* input frontier of the advance, d_queue[0 .. n)
    d_scanned_edges,        \* scanned_edges buffer of the enactor
    partition_starts,       \* output of the sorted search, one per block
    adv_pc,                 \* position of the host inside advance::LaunchKernel
    adv_path,               \* "light" or "partitioned" load-balanced kernel
    adv_todo,               \* thread blocks of the advance kernel not yet run
    cond_evals,             \* history: CondEdge calls per (frontier slot, edge)
    R_OP,                   \* reduce operator of the advance
    MARK_PREDECESSORS,      \* ProblemData::MARK_PREDECESSORS
    cond_false,             \* the edges (lookup) for which CondEdge is false
    d_reduce_frontier,      \* d_reduce_frontier[out_index]
    core_pc,                \* the next operator launch of the worker
    core_selector,          \* frontier_attribute->selector
    core_queue_index,       \* frontier_attribute->queue_index
    core_queue_reset,       \* frontier_attribute->queue_reset
    last_step,              \* history: arguments of the last launch
    keys_size,              \* frontier_queue->keys[0..1].GetSize()
    merge_kind,             \* which Expand_Incoming kernel the round uses
    org,                    \* vertex_associate_orgs / value__associate_orgs
    pending,                \* received elements no thread has handled yet
    inflight,               \* threads between their comparison and store
    merge_init,             \* history: arrays and messages at the round's start
    cc_pc,                  \* running filter kernel or host position of the CC run
    froms_tos,              \* data_slice->froms / tos: the edges
    component_ids,          \* data_slice->component_ids
    masks,                  \* data_slice->masks
    marks,                  \* data_slice->marks
    vertex_flag,            \* data_slice->vertex_flag[0]
    edge_flag,              \* data_slice->edge_flag[0]
    cc_todo,                \* elements of the running kernel not handled yet
    cc_turn,                \* data_slice->turn of the CC run
    st_pc,                  \* the host's position in the step of the stream model
    st_phase,               \* forward or backward loop
    st_iteration,           \* enactor_stats->iteration of the stream model
    stream_q,               \* the operations enqueued on the stream and not yet executed
    st_counter,             \* the length the last filter left in the work progress
    st_queue_length,        \* frontier_attribute->queue_length on the host
    st_offsets,             \* forward_queue_offsets of the stream model
    st_size,                \* the size of each buffer
    st_produced,            \* history, the output length of each executed filter
    st_growths,             \* history, each reallocation with the kernels then in flight
    app_pc,                 \* position of the entry point call
    app_alg,                \* the entry point called
    VALUE_TYPE,             \* data_t.VALUE_TYPE
    source_mode,            \* config.source_mode
    random_bits,            \* the bits RandomBits leaves in node_id
    csr_nodes,              \* csr.nodes
    app_src,                \* parameter->src
    node_value1,            \* grapho->node_value1, unset or filled
    app_printed,            \* the unsupported-type message has been printed
    bb_pc,                  \* position of each worker between the two BC phases
    bb_iteration,           \* s_enactor_stats[gpu*num_gpus].iteration of each device
    bb_max,                 \* max_iteration of each worker
    bb_gpu,                 \* the loop index of each worker's scan of the counters
    bb_fwd,                 \* history, the counter each forward loop ended with
    bb_barrier              \* arrivals at cpu_barrier[0] and cpu_barrier[1]

vars == <<alg, num_gpus, src_gpu, cpc, cgpu, runs, enact_retval, stats, wpc,
          init_size, retval, faults, iteration, queue_length, queue_index,
          selector, fq_selector, keys, forward_queue_offsets, forward_output,
          cpu_barrier, boundary_written, turn, in_length, out_length,
          recorded, fwd_iters, bwd_iters, bwd_inputs, gather_kind, d_counters,
          wp_pc, wp_steps, wp_queue_index, wp_queue_reset, wp_queue_length,
          input_queue_len, output_queue_len, blocks_todo, d_out_count,
          produced, row_offsets, d_queue, d_scanned_edges, partition_starts,
          adv_pc, adv_path, adv_todo, cond_evals, R_OP, MARK_PREDECESSORS,
          cond_false, d_reduce_frontier, core_pc, core_selector,
          core_queue_index, core_queue_reset, last_step, keys_size,
          merge_kind, org, pending, inflight, merge_init, cc_pc, froms_tos,
          component_ids, masks, marks, vertex_flag, edge_flag, cc_todo,
          cc_turn, st_pc, st_phase, st_iteration, stream_q, st_counter,
          st_queue_length, st_offsets, st_size, st_produced, st_growths,
          app_pc, app_alg, VALUE_TYPE, source_mode, random_bits, csr_nodes,
          app_src, node_value1, app_printed, bb_pc, bb_iteration, bb_max,
          bb_gpu, bb_fwd, bb_barrier>>

wpVars == <<d_counters, wp_pc, wp_steps, wp_queue_index, wp_queue_reset,
            wp_queue_length, input_queue_len, output_queue_len, blocks_todo,
            d_out_count, produced>>
enactorVars == <<alg, num_gpus, src_gpu, cpc, cgpu, runs, enact_retval, stats,
                 wpc, init_size, retval, faults, iteration, queue_length,
                 queue_index, selector, fq_selector, keys,
                 forward_queue_offsets, forward_output, cpu_barrier,
                 boundary_written, turn, in_length, out_length, recorded,
                 fwd_iters, bwd_iters, bwd_inputs, gather_kind>>

hostVars == <<cpc, cgpu, runs, enact_retval>>
advVars == <<row_offsets, d_queue, d_scanned_edges, partition_starts, adv_pc,
             adv_path, adv_todo, cond_evals, R_OP, MARK_PREDECESSORS,
             cond_false, d_reduce_frontier>>
reduceVars == <<R_OP, MARK_PREDECESSORS, cond_false>>
coreVars == <<core_pc, core_selector, core_queue_index, core_queue_reset,
              last_step, keys_size>>
mergeVars == <<merge_kind, org, pending, inflight, merge_init>>
ccVars == <<cc_pc, froms_tos, component_ids, masks, marks, vertex_flag,
            edge_flag, cc_todo, cc_turn>>
streamVars == <<st_pc, st_phase, st_iteration, stream_q, st_counter,
                st_queue_length, st_offsets, st_size, st_produced,
                st_growths>>
appVars == <<app_pc, app_alg, VALUE_TYPE, source_mode, random_bits, csr_nodes,
             app_src, node_value1, app_printed>>
boundaryVars == <<bb_pc, bb_iteration, bb_max, bb_gpu, bb_fwd, bb_barrier>>
nonEnactorVars == <<wpVars, advVars, coreVars, mergeVars, ccVars, streamVars,
                    appVars, boundaryVars>>
nonWpVars == <<enactorVars, advVars, coreVars, mergeVars, ccVars, streamVars,
               appVars, boundaryVars>>
nonAdvVars == <<enactorVars, wpVars, coreVars, mergeVars, ccVars, streamVars,
                appVars, boundaryVars>>
nonCoreVars == <<enactorVars, wpVars, advVars, mergeVars, ccVars, streamVars,
                 appVars, boundaryVars>>
nonMergeVars == <<enactorVars, wpVars, advVars, coreVars, ccVars, streamVars,
                  appVars, boundaryVars>>
nonCCVars == <<enactorVars, wpVars, advVars, coreVars, mergeVars, streamVars,
               appVars, boundaryVars>>
nonStreamVars == <<enactorVars, wpVars, advVars, coreVars, mergeVars, ccVars,
                   appVars, boundaryVars>>
nonAppVars == <<enactorVars, wpVars, advVars, coreVars, mergeVars, ccVars,
                streamVars, boundaryVars>>
nonBoundaryVars == <<enactorVars, wpVars, advVars, coreVars, mergeVars,
                     ccVars, streamVars, appVars>>
dataVars == <<queue_length, queue_index, selector, fq_selector, keys,
              forward_queue_offsets, forward_output, turn, in_length,
              out_length, iteration>>
histVars == <<recorded, fwd_iters, bwd_iters, bwd_inputs, gather_kind>>

Devices == 0 .. (num_gpus - 1)
Slots == 0 .. (num_gpus * num_gpus - 1)

cudaSuccess == "cudaSuccess"
cudaErrorFault == "cudaErrorLaunchFailure"

\* Slot of device gpu for peer 0: &enactor_stats[thread_num * num_gpus].
OwnSlot(gpu) == gpu * num_gpus

\* One more device fault may still be injected.
CanFault == faults < MaxFaults

\* Vertices a forward step outputs at a given depth; the source is depth 0.
Level(depth, len) == [i \in 1 .. len |-> depth * MaxLen + i]
SourceFrontier == Level(0, 1)

\* What a read outside the written part of a device buffer returns.
GarbageVertex == 0
\* What back() of an emptied std::vector<SizeT> may return.
GarbageOffsets == {-1, 0}

\* len elements of a buffer from offset start; unwritten cells read as garbage.
ReadBuf(buf, start, len) ==
    [i \in 1 .. len |->
        IF start + i >= 1 /\ start + i <= Len(buf) THEN buf[start + i]
        ELSE GarbageVertex]

\* MemsetCopyVectorKernel(dst + offset, src, len): dst[offset .. offset+len) := src.
WriteBuf(buf, offset, src) ==
    [i \in 1 .. (offset + Len(src)) |->
        IF i > offset THEN src[i - offset]
        ELSE IF i <= Len(buf) THEN buf[i] ELSE GarbageVertex]

\* The input frontier of the next advance: keys[selector][0 .. queue_length).
InputFrontier(gpu) == ReadBuf(keys[gpu][selector[gpu]], 0, queue_length[gpu])

Last(s) == s[Len(s)]
Front(s) == SubSeq(s, 1, Len(s) - 1)

\* ------------------------------------------------------------- initial state
PerGpu(n, v) == [g \in 0 .. n - 1 |-> v]

\* Problem::Reset(src): the source is queued on the device that owns it.
ResetKeys(n, sg, a) ==
    [g \in 0 .. n - 1 |->
        [s \in 0 .. 1 |-> IF a = "BC" /\ g = sg THEN SourceFrontier ELSE << >>]]

\* State after Problem::Init and Enactor::Init: the worker threads exist,
\* their flags are -1, and nothing has been reset or enacted yet.
InitBC(n) ==
    /\ stats = PerGpu(n, -1)
    /\ wpc = PerGpu(n, "start")
    /\ cpu_barrier = [b \in 0 .. 1 |-> 0]
    /\ init_size = PerGpu(n, 0)
    /\ retval = [s \in 0 .. n * n - 1 |-> cudaSuccess]

InitEnactor ==
    /\ alg \in {"BC", "CC"}
    /\ num_gpus \in 1 .. MaxGpus
    /\ src_gpu \in 0 .. num_gpus - 1
    /\ cpc = "init"
    /\ cgpu = 0
    /\ runs = 0
    /\ enact_retval = cudaSuccess
    /\ faults = 0
    /\ boundary_written = PerGpu(num_gpus, FALSE)
    /\ InitBC(num_gpus)
    /\ queue_length = PerGpu(num_gpus, 0)
    /\ queue_index = PerGpu(num_gpus, 0)
    /\ selector = PerGpu(num_gpus, 0)
    /\ fq_selector = PerGpu(num_gpus, 0)
    /\ keys = PerGpu(num_gpus, [s \in 0 .. 1 |-> << >>])
    /\ forward_queue_offsets = PerGpu(num_gpus, <<0>>)
    /\ forward_output = PerGpu(num_gpus, << >>)
    /\ turn = PerGpu(num_gpus, 0)
    /\ in_length = PerGpu(num_gpus, 0)
    /\ out_length = PerGpu(num_gpus, 0)
    /\ iteration = PerGpu(num_gpus, 0)
    /\ recorded = PerGpu(num_gpus, << >>)
    /\ fwd_iters = PerGpu(num_gpus, 0)
    /\ bwd_iters = PerGpu(num_gpus, 0)
    /\ bwd_inputs = PerGpu(num_gpus, << >>)
    /\ gather_kind = PerGpu(num_gpus, "none")

\* ------------------------------------------------------------- work progress
\* CtaWorkProgress: the queue-length counters are indexed by queue_index
\* modulo QUEUE_COUNTERS.
QUEUE_COUNTERS == 4
CounterOf(idx) == idx % QUEUE_COUNTERS

\* Reset<SizeT>(): thread threadIdx.x zeroes d_counters[threadIdx.x]; called by
\* the first COUNTERS threads of block 0, so every counter becomes 0.
WP_Reset(c) == [i \in 0 .. QUEUE_COUNTERS - 1 |-> 0]

\* StoreQueueLength(len, idx), LoadQueueLength(idx), Enqueue(delta, idx).
StoreQueueLength(c, len, idx) == [c EXCEPT ![CounterOf(idx)] = len]
LoadQueueLength(c, idx) == c[CounterOf(idx)]
Enqueue(c, delta, idx) == [c EXCEPT ![CounterOf(idx)] = @ + delta]

\* Prologue variants that hit a neighbouring counter.
PrologueEnqueueAtIndex(c, reset, len, idx, total) ==
    LET c1 == IF reset THEN WP_Reset(c) ELSE c
        c2 == IF reset THEN StoreQueueLength(c1, len, idx) ELSE c1
        c3 == Enqueue(c2, total, idx)
    IN  StoreQueueLength(c3, 0, idx + 2)

PrologueZeroNext(c, reset, len, idx, total) ==
    LET c1 == IF reset THEN WP_Reset(c) ELSE c
        c2 == IF reset THEN StoreQueueLength(c1, len, idx) ELSE c1
        c3 == Enqueue(c2, total, idx + 1)
    IN  StoreQueueLength(c3, 0, idx + 1)

\* The counter protocol at the top of RelaxPartitionedEdges2 / RelaxLightEdges:
\* with queue_reset all counters are zeroed and the input length is stored at
\* queue_index; block 0, thread 0 then enqueues the scanned output size at
\* queue_index + 1 and zeroes the counter of queue_index + 2.
AdvancePrologue(c, reset, len, idx, total) ==
    LET c1 == IF reset THEN WP_Reset(c) ELSE c
        c2 == IF reset THEN StoreQueueLength(c1, len, idx) ELSE c1
        c3 == Enqueue(c2, total, idx + 1)
    IN  StoreQueueLength(c3, 0, idx + 2)

\* The input length block 0, thread 0 works with after the prologue.
PrologueInputLen(c, reset, len, idx) ==
    IF reset THEN len ELSE LoadQueueLength(c, idx)

\* my_thread_start = bid * partition_size; my_thread_end = min((bid + 1) *
\* partition_size, output_queue_len[0]); a block past the end returns.
BlockOutputs(bid, total) ==
    LET my_thread_start == bid * PartitionSize
        my_thread_end == IF (bid + 1) * PartitionSize < total
                         THEN (bid + 1) * PartitionSize ELSE total
    IN  IF my_thread_start >= total THEN 0
        ELSE my_thread_end - my_thread_start

InitWP ==
    /\ d_counters = [i \in 0 .. QUEUE_COUNTERS - 1 |-> 0]
    /\ wp_pc = "host"
    /\ wp_steps = 0
    /\ wp_queue_index = 0
    /\ wp_queue_reset = TRUE
    /\ wp_queue_length = 1
    /\ input_queue_len = 0
    /\ output_queue_len = 0
    /\ blocks_todo = {}
    /\ d_out_count = 0
    /\ produced = 0

\* ------------------------------------------------------------- advance operator
\* One load-balanced advance step: GetEdgeCounts, the inclusive scan of the
\* counts, and one of the kernels RelaxLightEdges / RelaxPartitionedEdges2.
Vertices == 0 .. NumVertices - 1
max_vertex == NumVertices
max_edge == row_offsets[NumVertices]
AdvLen == Cardinality(DOMAIN d_queue)

MinOf(S) == CHOOSE x \in S : \A y \in S : x <= y
CeilDiv(a, b) == (a + b - 1) \div b

RECURSIVE PrefixSum(_, _)
PrefixSum(buf, i) == IF i < 0 THEN 0 ELSE buf[i] + PrefixSum(buf, i - 1)

\* The CSR offsets of the graph whose vertex v has deg[v] out-edges.
RowOffsetsOf(deg) == [v \in 0 .. NumVertices |-> PrefixSum(deg, v - 1)]
Degree(v) == row_offsets[v + 1] - row_offsets[v]

GetNeighborListLength(d_vertex_id) ==
    LET first == IF d_vertex_id >= max_vertex THEN max_edge
                 ELSE row_offsets[d_vertex_id]
        second == IF d_vertex_id + 1 >= max_vertex THEN max_edge
                  ELSE row_offsets[d_vertex_id + 1]
    IN  IF second > first THEN second - first ELSE 0

\* The grid of GetEdgeCounts and of RelaxLightEdges: one thread per element.
LightBlocks == CeilDiv(AdvLen, THREADS)

\* What thread my_id of GetEdgeCounts leaves in d_scanned_edges[my_id]; a
\* thread that returns early leaves the old content of the buffer.
EdgeCountOf(my_id, old) ==
    IF my_id > AdvLen \/ my_id >= max_edge THEN old
    ELSE LET v_id == IF my_id >= AdvLen THEN -1 ELSE d_queue[my_id]
         IN  IF v_id < 0 \/ v_id > max_vertex THEN 0
             ELSE IF my_id = AdvLen THEN 0
             ELSE GetNeighborListLength(v_id)

GetEdgeCounts(buf) ==
    [my_id \in DOMAIN buf |->
        IF my_id < LightBlocks * THREADS THEN EdgeCountOf(my_id, buf[my_id])
        ELSE buf[my_id]]

\* Scan<MgpuScanTypeInc> over the first num_elements entries, in place.
InclusiveScan(buf, num_elements) ==
    [i \in DOMAIN buf |-> IF i < num_elements THEN PrefixSum(buf, i) ELSE buf[i]]

\* output_queue_len[0]: the last entry of the scan.
AdvOutputLen == d_scanned_edges[AdvLen - 1]
SplitVal == CeilDiv(AdvOutputLen, BLOCKS)

MarkPartitionSizes(my_id, split_val, output_len) ==
    IF split_val * my_id > output_len THEN output_len ELSE split_val * my_id

\* SortedSearch<MgpuBoundsLower>: the first scanned entry that is >= needle.
LowerBound(needle) ==
    Cardinality({k \in 0 .. AdvLen - 1 : d_scanned_edges[k] < needle})

\* BinarySearch<THREADS>(i, s_edges): the first entry of s_edges above i.
BinarySearch(i, s_edges) ==
    LET above == {k \in DOMAIN s_edges : s_edges[k] > i}
    IN  IF above = {} THEN THREADS ELSE MinOf(above)

\* One CondEdge call: <<output position, frontier slot, edge of the slot's
\* vertex, index into column_indices>>.
EdgeVisit(out_index, slot, v, e) == <<out_index, slot, e, row_offsets[v] + e>>

\* All CondEdge calls of block bid of RelaxLightEdges; thread tid takes the
\* edges i = tid, tid + THREADS, ... below size.
RelaxLightEdges(bid) ==
    LET range == AdvLen
        offset == IF THREADS * bid - 1 > 0
                  THEN d_scanned_edges[THREADS * bid - 1] ELSE 0
        end_id == (IF THREADS * (bid + 1) >= range THEN range - 1
                   ELSE THREADS * (bid + 1) - 1) % THREADS
        s_edges == [tid \in 0 .. THREADS - 1 |->
                       IF bid * THREADS + tid < range
                       THEN d_scanned_edges[bid * THREADS + tid] - offset
                       ELSE max_edge]
        s_vertices == [tid \in 0 .. THREADS - 1 |->
                          IF bid * THREADS + tid < range
                          THEN d_queue[bid * THREADS + tid] ELSE max_vertex]
        size == s_edges[end_id]
    IN  { LET v_index == BinarySearch(i, s_edges)
              internal_offset == IF v_index > 0 THEN s_edges[v_index - 1] ELSE 0
          IN  EdgeVisit(offset + i, bid * THREADS + v_index,
                        s_vertices[v_index], i - internal_offset)
          : i \in 0 .. size - 1 }

\* An end of the block's frontier range one element behind the frontier.
MyEndPartitionPastEnd(bid) == AdvLen + 1

\* The number of edges of one loop iteration without the cap of the block's
\* remaining work.
ELastUncapped(loaded, remaining) == loaded

\* SizeT e_last = min(s_edges[last] - e_offset, my_work_size - edges_processed);
ELast(loaded, remaining) == MinOf({loaded, remaining})

MyEndPartition(bid) ==
    IF partition_starts[bid + 1] > AdvLen THEN partition_starts[bid + 1]
    ELSE AdvLen

\* The while loop of RelaxPartitionedEdges2 from one iteration on: the block
\* loads THREADS frontier elements per iteration.
RECURSIVE PartitionedLoop(_, _, _, _, _)
PartitionedLoop(bid, my_work_size, edges_processed, my_start_partition, e_offset) ==
    LET my_end_partition == MyEndPartition(bid)
    IN  IF ~(edges_processed < my_work_size
             /\ my_start_partition < my_end_partition)
        THEN {}
        ELSE
        LET pre_offset == IF my_start_partition > 0
                          THEN d_scanned_edges[my_start_partition - 1] ELSE 0
            s_edges == [tid \in 0 .. THREADS - 1 |->
                           IF my_start_partition + tid < my_end_partition
                           THEN d_scanned_edges[my_start_partition + tid] - pre_offset
                           ELSE max_edge]
            s_vertices == [tid \in 0 .. THREADS - 1 |->
                              IF my_start_partition + tid < my_end_partition
                              THEN d_queue[my_start_partition + tid] ELSE -1]
            last == IF my_start_partition + THREADS >= my_end_partition
                    THEN my_end_partition - my_start_partition - 1
                    ELSE THREADS - 1
            e_last == ELast(s_edges[last] - e_offset,
                            my_work_size - edges_processed)
            out_offset == bid * SplitVal
        IN  { LET v_index == BinarySearch(i, s_edges)
                  internal_offset == IF v_index > 0 THEN s_edges[v_index - 1]
                                     ELSE 0
              IN  EdgeVisit(out_offset + edges_processed + (i - e_offset),
                            my_start_partition + v_index,
                            s_vertices[v_index], i - internal_offset)
              : i \in e_offset .. e_last + e_offset - 1 }
            \cup PartitionedLoop(bid, my_work_size, edges_processed + e_last,
                                 my_start_partition + THREADS, 0)

\* All CondEdge calls of block bid of RelaxPartitionedEdges2.
RelaxPartitionedEdges2(bid) ==
    LET partition_size == SplitVal
        my_thread_start == bid * partition_size
        my_thread_end == IF (bid + 1) * partition_size < AdvOutputLen
                         THEN (bid + 1) * partition_size ELSE AdvOutputLen
        my_start_partition == partition_starts[bid]
        pre_offset == IF my_start_partition > 0
                      THEN d_scanned_edges[my_start_partition - 1] ELSE 0
    IN  IF my_thread_start >= AdvOutputLen THEN {}
        ELSE PartitionedLoop(bid, my_thread_end - my_thread_start, 0,
                             my_start_partition, my_thread_start - pre_offset)

\* The functor and the template arguments of one advance.
CondEdge(lookup) == lookup \notin cond_false
ReduceOps == {"PLUS", "MULTIPLIES", "MAXIMUM", "MINIMUM", "BIT_OR", "BIT_AND",
              "BIT_XOR"}
\* d_value_to_reduce[lookup] (R_TYPE EDGE): the data of the edge.
ValueToReduce(lookup) == lookup + 2

\* The switch on R_OP in the branch taken when CondEdge is false.  The
\* branch of RelaxPartitionedEdges2 compiled with MARK_PREDECESSORS has no
\* case for the three bitwise operators.
AbsentValue(path, mark, op) ==
    IF path = "partitioned" /\ mark
    THEN CASE op = "PLUS" -> 0
           [] op = "MULTIPLIES" -> 1
           [] op = "MAXIMUM" -> INT_MIN
           [] op = "MINIMUM" -> INT_MAX
           [] OTHER -> 0
    ELSE CASE op = "PLUS" -> 0
           [] op = "MULTIPLIES" -> 1
           [] op = "MAXIMUM" -> INT_MIN
           [] op = "MINIMUM" -> INT_MAX
           [] op = "BIT_OR" -> 0
           [] op = "BIT_AND" -> ALL_ONES
           [] op = "BIT_XOR" -> 0
           [] OTHER -> 0

\* What the kernel stores at d_reduce_frontier + out_index for one edge.
ReduceStore(lookup) ==
    IF CondEdge(lookup) THEN ValueToReduce(lookup)
    ELSE AbsentValue(adv_path, MARK_PREDECESSORS, R_OP)

\* The kernel arguments fixed by the caller of the advance.
ReduceArguments ==
    /\ R_OP' \in ReduceOps
    /\ MARK_PREDECESSORS' \in BOOLEAN
    /\ cond_false' \in {{l \in 0 .. max_edge + MaxDegree : l % 2 = 0},
                        0 .. max_edge + MaxDegree}

Graphs == {RowOffsetsOf(deg) : deg \in [Vertices -> 0 .. MaxDegree]}
Frontiers == UNION {[0 .. n - 1 -> Vertices] : n \in 1 .. MaxFrontier}
\* The scanned_edges buffer holds what earlier steps or the allocator left.
StaleBuffers == {[i \in 0 .. MaxFrontier |-> c] : c \in 0 .. MaxDegree}

IdleAdvance ==
    /\ row_offsets = [v \in 0 .. NumVertices |-> 0]
    /\ d_queue = << >>
    /\ d_scanned_edges = [i \in 0 .. MaxFrontier |-> 0]
    /\ partition_starts = [b \in 0 .. BLOCKS |-> 0]
    /\ adv_pc = "idle"
    /\ adv_path = "light"
    /\ adv_todo = {}
    /\ cond_evals = << >>
    /\ R_OP = "PLUS"
    /\ MARK_PREDECESSORS = FALSE
    /\ cond_false = {}
    /\ d_reduce_frontier = << >>

InitAdvance ==
    /\ row_offsets \in Graphs
    /\ d_queue \in Frontiers
    /\ d_scanned_edges \in StaleBuffers
    /\ partition_starts = [b \in 0 .. BLOCKS |-> 0]
    /\ adv_pc = "host"
    /\ adv_path = "light"
    /\ adv_todo = {}
    /\ cond_evals = << >>
    /\ R_OP = "PLUS"
    /\ MARK_PREDECESSORS = FALSE
    /\ cond_false = {}
    /\ d_reduce_frontier = << >>

\* LaunchKernel, case LB: the counting kernel.
AdvGetEdgeCounts ==
    /\ adv_pc = "host"
    /\ d_scanned_edges' = GetEdgeCounts(d_scanned_edges)
    /\ adv_pc' = "counted"
    /\ UNCHANGED <<row_offsets, d_queue, partition_starts, adv_path, adv_todo,
                   cond_evals, reduceVars, d_reduce_frontier>>

AdvScan ==
    /\ adv_pc = "counted"
    /\ d_scanned_edges' = InclusiveScan(d_scanned_edges, AdvLen)
    /\ adv_pc' = "scanned"
    /\ UNCHANGED <<row_offsets, d_queue, partition_starts, adv_path, adv_todo,
                   cond_evals, reduceVars, d_reduce_frontier>>

\* The host picks the kernel by the size of the output and launches it.
AdvLaunchLight ==
    /\ adv_pc = "scanned"
    /\ adv_path' = "light"
    /\ adv_todo' = 0 .. LightBlocks - 1
    /\ adv_pc' = "kernel"
    /\ ReduceArguments
    /\ UNCHANGED <<row_offsets, d_queue, d_scanned_edges, partition_starts,
                   cond_evals, d_reduce_frontier>>

AdvLaunchPartitioned ==
    /\ adv_pc = "scanned"
    /\ adv_path' = "partitioned"
    /\ partition_starts' =
           [b \in 0 .. BLOCKS |->
               LowerBound(MarkPartitionSizes(b, SplitVal, AdvOutputLen))]
    /\ adv_todo' = 0 .. BLOCKS - 1
    /\ adv_pc' = "kernel"
    /\ ReduceArguments
    /\ UNCHANGED <<row_offsets, d_queue, d_scanned_edges, cond_evals,
                   d_reduce_frontier>>

\* One thread block of the advance kernel runs to completion.
AdvBlock(bid) ==
    /\ adv_pc = "kernel"
    /\ bid \in adv_todo
    /\ adv_todo' = adv_todo \ {bid}
    /\ LET visits == IF adv_path = "light" THEN RelaxLightEdges(bid)
                     ELSE RelaxPartitionedEdges2(bid)
       IN  /\ cond_evals' = cond_evals @@ (bid :> visits)
           /\ d_reduce_frontier' =
                  [out_index \in {x[1] : x \in visits} |->
                      LET x == CHOOSE y \in visits : y[1] = out_index
                      IN  ReduceStore(x[4])] @@ d_reduce_frontier
    /\ UNCHANGED <<row_offsets, d_queue, d_scanned_edges, partition_starts,
                   adv_pc, adv_path, reduceVars>>

AdvDone ==
    /\ adv_pc = "kernel"
    /\ adv_todo = {}
    /\ adv_pc' = "done"
    /\ UNCHANGED <<row_offsets, d_queue, d_scanned_edges, partition_starts,
                   adv_path, adv_todo, cond_evals, reduceVars,
                   d_reduce_frontier>>

\* ------------------------------------------------------------- operator steps
\* The sequence of advance and filter launches one worker makes during a run,
\* with the frontier_attribute fields the host updates around each launch.
NoSlot == -1
\* A host that leaves selector where it is after a step.
KeepSlot(sel) == sel
\* A host that counts queue_index down after a step.
DropIndex(index) == index - 1
\* frontier_attribute->queue_index++
BumpIndex(index) == index + 1
Flip(sel) == 1 - sel

\* CC: the filters of FullQueue_Gather and FullQueue_Core in launch order.
\* restart: the host sets queue_index = 0, selector = 0, queue_reset = true
\* before the launch; bump: it sets queue_reset = false and increments
\* queue_index after it; next: the launches that can follow.
CCFilters ==
    [HookInit      |-> [restart |-> TRUE,  bump |-> FALSE, next |-> {"PtrJump0"}],
     PtrJump0      |-> [restart |-> TRUE,  bump |-> TRUE,
                        next |-> {"PtrJump", "UpdateMask0"}],
     PtrJump       |-> [restart |-> FALSE, bump |-> TRUE,
                        next |-> {"PtrJump", "UpdateMask0"}],
     UpdateMask0   |-> [restart |-> TRUE,  bump |-> FALSE, next |-> {"HookMax"}],
     HookMax       |-> [restart |-> TRUE,  bump |-> TRUE,
                        next |-> {"PtrJumpMask0", "TurnEnd"}],
     PtrJumpMask0  |-> [restart |-> TRUE,  bump |-> TRUE,
                        next |-> {"PtrJumpMask", "PtrJumpUnmask"}],
     PtrJumpMask   |-> [restart |-> FALSE, bump |-> TRUE,
                        next |-> {"PtrJumpMask", "PtrJumpUnmask"}],
     PtrJumpUnmask |-> [restart |-> TRUE,  bump |-> FALSE, next |-> {"UpdateMask"}],
     UpdateMask    |-> [restart |-> FALSE, bump |-> FALSE, next |-> {"HookMax"}]]

\* The record of one launch: the arguments the kernel was given.
\* capacity: the size of the slot the kernel writes; max_out: the largest
\* number of frontier elements the kernel can store there.
Launched(kernel, index, reset, in_slot, out_slot, capacity, max_out) ==
    [n |-> last_step.n + 1, kernel |-> kernel, queue_index |-> index,
     queue_reset |-> reset, read |-> in_slot, write |-> out_slot,
     capacity |-> capacity, max_out |-> max_out,
     prev_index |-> last_step.queue_index]
NoLaunch ==
    [n |-> 0, kernel |-> "none", queue_index |-> 0, queue_reset |-> TRUE,
     read |-> NoSlot, write |-> NoSlot, capacity |-> 0, max_out |-> 0,
     prev_index |-> 0]

\* Check_Size<true, ...>(name, target, array, ...): grows the array to the
\* target length when it is shorter.
Check_Size(size, target_length) ==
    IF size < target_length THEN target_length ELSE size

\* A size check that leaves both slots as they are.
Skip_Check_Queue_Size(sizes, sel, request_length) == sizes

\* Forward_Iteration::Check_Queue_Size
Forward_Check_Queue_Size(sizes, sel, request_length) ==
    [slot \in {0, 1} |->
        IF slot = Flip(sel) THEN Check_Size(sizes[slot], request_length)
        ELSE Check_Size(sizes[slot], NumVertices + 2)]

\* Backward_Iteration::Check_Queue_Size and CCIteration::Check_Queue_Size
\* return at once.
Empty_Check_Queue_Size(sizes, sel, request_length) == sizes

IdleCore ==
    /\ core_pc = "idle"
    /\ core_selector = 0
    /\ core_queue_index = 0
    /\ core_queue_reset = TRUE
    /\ last_step = NoLaunch
    /\ keys_size = [slot \in {0, 1} |-> 1]

\* BCThread / CCThread before the iteration loop.
InitCore ==
    /\ core_pc \in {"Advance", "HookInit"}
    /\ core_selector \in (IF core_pc = "Advance" THEN {0, 1} ELSE {0})
    /\ core_queue_index = 0
    /\ core_queue_reset = TRUE
    /\ last_step = NoLaunch
    /\ keys_size \in [{0, 1} -> {1, NumVertices + 2}]

\* BC forward FullQueue_Core, first half: the advance.
ForwardAdvance ==
    /\ core_pc = "Advance"
    /\ last_step.n < MaxCoreSteps
    /\ \E request_length \in 0 .. MaxRequest :
           /\ keys_size' = Forward_Check_Queue_Size(keys_size, core_selector,
                                                    request_length)
           /\ last_step' = Launched("Advance", core_queue_index, TRUE,
                                    core_selector, Flip(core_selector),
                                    keys_size'[Flip(core_selector)],
                                    request_length)
    /\ core_queue_reset' = FALSE
    /\ core_queue_index' = BumpIndex(core_queue_index)
    /\ core_selector' = Flip(core_selector)
    /\ core_pc' = "Filter"

\* BC forward FullQueue_Core, second half: the filter; the loop then goes on
\* with the next advance or the forward phase ends.
ForwardFilter ==
    /\ core_pc = "Filter"
    /\ last_step' = Launched("Filter", core_queue_index, core_queue_reset,
                             core_selector, Flip(core_selector),
                             keys_size[Flip(core_selector)],
                             MinOf({last_step.max_out, NumVertices}))
    /\ core_queue_index' = BumpIndex(core_queue_index)
    /\ core_selector' = Flip(core_selector)
    /\ core_pc' \in {"Advance", "BackwardAdvance"}
    /\ UNCHANGED <<core_queue_reset, keys_size>>

\* BC backward FullQueue_Gather and FullQueue_Core: the advance has no output
\* queue and the host changes neither queue_index nor selector after it.
BackwardAdvance ==
    /\ core_pc = "BackwardAdvance"
    /\ last_step.n < MaxCoreSteps
    /\ \E request_length \in 0 .. MaxRequest :
           keys_size' = Empty_Check_Queue_Size(keys_size, 0, request_length)
    /\ last_step' = Launched("BackwardAdvance", core_queue_index, TRUE, 0,
                             NoSlot, 0, 0)
    /\ core_queue_reset' = TRUE
    /\ core_selector' = 0
    /\ core_pc' \in {"BackwardAdvance", "end"}
    /\ UNCHANGED core_queue_index

\* One filter of CC: no output queue, selector is never flipped.
CCFilter ==
    /\ core_pc \in DOMAIN CCFilters
    /\ last_step.n < MaxCoreSteps
    /\ LET f == CCFilters[core_pc]
           index == IF f.restart THEN 0 ELSE core_queue_index
           sel == IF f.restart THEN 0 ELSE core_selector
           reset == IF f.restart THEN TRUE ELSE core_queue_reset
       IN  /\ last_step' = Launched(core_pc, index, reset, sel, NoSlot, 0, 0)
           /\ keys_size' = Empty_Check_Queue_Size(keys_size, sel, 0)
           /\ core_selector' = sel
           /\ core_queue_index' = IF f.bump THEN BumpIndex(index) ELSE index
           /\ core_queue_reset' = IF f.bump THEN FALSE ELSE reset
           /\ core_pc' \in f.next

\* End of a CC turn: the next turn's gather launches no filter.
CCTurnEnd ==
    /\ core_pc = "TurnEnd"
    /\ core_pc' \in {"PtrJump0", "end"}
    /\ UNCHANGED <<core_selector, core_queue_index, core_queue_reset, last_step,
                   keys_size>>

\* ------------------------------------------------------------- ghost updates
\* One exchange round on the owning device: the Expand_Incoming kernels merge
\* the elements received from the peers into the owner's arrays.  An element
\* is [peer, key, val]: val is the component id (BothWay), the predecessor
\* (Forward; every element of a round carries the label of the round and, in
\* the model, sigma 1) or the delta (Backward).
MergeKeys == 0 .. NumKeys - 1
MergePeers == 1 .. NumPeers
MergeValues == 0 .. MaxValue
RoundLabel == 1
Unlabelled == -1
NoPred == -2

Elements == [peer : MergePeers, key : MergeKeys, val : MergeValues]
\* A message holds each key at most once.
MessageSets ==
    {S \in SUBSET Elements :
        \A e, f \in S : (e.peer = f.peer /\ e.key = f.key) => e = f}

\* Expand_Incoming_BothWay on one element, the comparison and the store taken
\* together: the smaller component id stays.
BothWay(o, el) ==
    IF el.val < o[el.key].val THEN [o EXCEPT ![el.key].val = el.val] ELSE o

\* Expand_Incoming_Forward on one element, all of its steps taken together.
Forward(o, el) ==
    LET k == o[el.key]
    IN  IF k.pred = NoPred
        THEN [o EXCEPT ![el.key] = [label |-> RoundLabel, pred |-> el.val,
                                    val |-> k.val + 1,
                                    emitted |-> k.emitted + 1]]
        ELSE LET t == k.label
                 label == IF k.label = Unlabelled THEN RoundLabel ELSE k.label
             IN  IF label # RoundLabel THEN [o EXCEPT ![el.key].label = label]
                 ELSE [o EXCEPT ![el.key] =
                          [label |-> label, pred |-> k.pred, val |-> k.val + 1,
                           emitted |-> IF t = Unlabelled THEN k.emitted + 1
                                       ELSE k.emitted]]

\* The thread whose atomicCAS on preds found -2: the predecessor is stored by
\* the atomicCAS itself, the label by a later plain store.
ForwardWins(o, el) == o[el.key].pred = NoPred

ForwardCAS(o, el) == [o EXCEPT ![el.key].pred = el.val]

\* The winner's plain store of the label, keys_out[x] = key and the atomicAdd
\* on sigmas.
ForwardStore(o, el) ==
    [o EXCEPT ![el.key] = [label |-> RoundLabel, pred |-> @.pred,
                           val |-> @.val + 1, emitted |-> @.emitted + 1]]

\* Expand_Incoming_Backward on one element: the value is stored over the old.
Backward(o, el) == [o EXCEPT ![el.key].val = el.val]

ApplyElement(kind, o, el) ==
    CASE kind = "BothWay" -> BothWay(o, el)
      [] kind = "Forward" -> Forward(o, el)
      [] kind = "Backward" -> Backward(o, el)

\* The owner's arrays before the round.
OwnerStates(kind) ==
    IF kind = "Forward"
    THEN [MergeKeys -> {[label |-> Unlabelled, pred |-> NoPred, val |-> 0,
                         emitted |-> 0],
                        [label |-> RoundLabel - 1, pred |-> 0, val |-> 1,
                         emitted |-> 0]}]
    ELSE [MergeKeys -> {[label |-> Unlabelled, pred |-> NoPred, val |-> v,
                         emitted |-> 0] : v \in MergeValues}]

IdleMerge ==
    /\ merge_kind = "none"
    /\ org = << >>
    /\ pending = {}
    /\ inflight = {}
    /\ merge_init = << >>

InitMerge ==
    /\ merge_kind \in {"BothWay", "Forward", "Backward"}
    /\ org \in OwnerStates(merge_kind)
    /\ pending \in MessageSets
    /\ inflight = {}
    /\ merge_init = <<org, pending>>

\* A thread of Expand_Incoming_BothWay evaluates the comparison
\* in[x] < org[key]; the kernels of different peers run on the peers' streams.
MergeRead(el) ==
    /\ merge_kind = "BothWay"
    /\ el \in pending
    /\ pending' = pending \ {el}
    /\ inflight' = inflight \cup {[el |-> el, smaller |-> el.val < org[el.key].val]}
    /\ UNCHANGED <<merge_kind, org, merge_init>>

\* The same thread stores in[x] if the comparison held.  A thread of
\* Expand_Incoming_Forward that won the atomicCAS on preds stores the label,
\* emits the key and adds its sigma.
MergeWrite(t) ==
    /\ t \in inflight
    /\ inflight' = inflight \ {t}
    /\ org' = IF merge_kind = "Forward" THEN ForwardStore(org, t.el)
              ELSE IF t.smaller THEN [org EXCEPT ![t.el.key].val = t.el.val]
              ELSE org
    /\ UNCHANGED <<merge_kind, pending, merge_init>>

\* A thread of Expand_Incoming_Forward or Expand_Incoming_Backward handles
\* one element.  The forward thread that finds preds[key] = -2 has only done
\* its atomicCAS; every other thread runs to its end, its atomicCAS on labels
\* seeing the label as it is at that moment.
MergeApply(el) ==
    /\ merge_kind \in {"Forward", "Backward"}
    /\ el \in pending
    /\ pending' = pending \ {el}
    /\ IF merge_kind = "Forward" /\ ForwardWins(org, el)
       THEN /\ org' = ForwardCAS(org, el)
            /\ inflight' = inflight \cup {[el |-> el, smaller |-> FALSE]}
       ELSE /\ org' = ApplyElement(merge_kind, org, el)
            /\ UNCHANGED inflight
    /\ UNCHANGED <<merge_kind, merge_init>>

\* ------------------------------------------------------ connected components
\* One single-device CC run on a small graph: FullQueue_Gather, FullQueue_Core
\* and Stop_Condition, with the threads of each filter launch taken one at a
\* time in any order.  An edge is <<from, to>> (froms[e], tos[e]).
CCVertices == 0 .. NumCCVertices - 1
CCEdgeSlots == {e \in CCVertices \X CCVertices : e[1] < e[2]}
MaxOf2(a, b) == IF a > b THEN a ELSE b
MinOf2(a, b) == IF a > b THEN b ELSE a

EdgeKernels == {"HookInit", "HookMax"}
ElementsOf(kernel) == IF kernel \in EdgeKernels THEN froms_tos ELSE CCVertices

\* The functors' effect on the component ids, for one element.
FunctorIds(kernel, x, ids, msk, mrk) ==
    CASE kernel = "HookInit" ->
            [ids EXCEPT ![MaxOf2(x[1], x[2])] = MinOf2(x[1], x[2])]
      [] kernel = "HookMax" ->
            IF mrk[x] \/ ids[x[1]] = ids[x[2]] THEN ids
            ELSE [ids EXCEPT ![MinOf2(ids[x[1]], ids[x[2]])] =
                                 MaxOf2(ids[x[1]], ids[x[2]])]
      [] kernel = "PtrJump" -> [ids EXCEPT ![x] = ids[ids[x]]]
      [] kernel = "PtrJumpMask" ->
            IF msk[x] = 0 THEN [ids EXCEPT ![x] = ids[ids[x]]] ELSE ids
      [] kernel = "PtrJumpUnmask" ->
            IF msk[x] = 1 THEN [ids EXCEPT ![x] = ids[ids[x]]] ELSE ids
      [] OTHER -> ids

\* ... on the vertex masks (0: root, 1: leaf, -1: settled root) ...
FunctorMasks(kernel, x, ids, msk) ==
    CASE kernel \in {"UpdateMask0", "UpdateMask"} ->
            [msk EXCEPT ![x] = IF ids[x] = x THEN 0 ELSE 1]
      [] kernel = "PtrJumpMask" ->
            IF msk[x] = 0 /\ ids[x] = ids[ids[x]] THEN [msk EXCEPT ![x] = -1]
            ELSE msk
      [] OTHER -> msk

\* ... and on the flags the host reads back: a thread that changes something
\* clears the flag of its kernel.
ClearsVertexFlag(kernel, x, ids, msk) ==
    /\ kernel = "PtrJump" \/ (kernel = "PtrJumpMask" /\ msk[x] = 0)
    /\ ids[x] # ids[ids[x]]
ClearsEdgeFlag(kernel, x, ids, mrk) ==
    kernel = "HookMax" /\ ~mrk[x] /\ ids[x[1]] # ids[x[2]]

\* while (!vertex_flag[0]) and while (!edge_flag[0]) leave on a set flag.
AlwaysDone(flag) == TRUE
NeverDone(flag) == FALSE
LoopDone(flag) == flag = 1

\* The host code between two launches of FullQueue_Core: the next kernel.
NextKernel(kernel, vflag, eflag) ==
    CASE kernel = "HookInit" -> "PtrJump"
      [] kernel = "PtrJump" ->
            IF LoopDone(vflag) THEN "UpdateMask0" ELSE "PtrJump"
      [] kernel = "UpdateMask0" -> "HookMax"
      [] kernel = "HookMax" ->
            IF LoopDone(eflag) THEN "Stop_Condition" ELSE "PtrJumpMask"
      [] kernel = "PtrJumpMask" ->
            IF LoopDone(vflag) THEN "PtrJumpUnmask" ELSE "PtrJumpMask"
      [] kernel = "PtrJumpUnmask" -> "UpdateMask"
      [] kernel = "UpdateMask" -> "HookMax"

IdleCC ==
    /\ cc_pc = "idle"
    /\ froms_tos = {}
    /\ component_ids = << >>
    /\ masks = << >>
    /\ marks = << >>
    /\ vertex_flag = 1
    /\ edge_flag = 1
    /\ cc_todo = {}
    /\ cc_turn = 0

\* Problem::Reset: every vertex is its own component.
InitCC ==
    /\ cc_pc = "Gather"
    /\ froms_tos \in SUBSET CCEdgeSlots
    /\ component_ids = [v \in CCVertices |-> v]
    /\ masks = [v \in CCVertices |-> 0]
    /\ marks = [e \in froms_tos |-> FALSE]
    /\ vertex_flag = 1
    /\ edge_flag = 1
    /\ cc_todo = {}
    /\ cc_turn = 0

\* FullQueue_Gather: the marks are cleared and, in turn 0, HookInit is
\* launched over all edges; with turn > 0 FullQueue_Core starts at once.
CCGather ==
    /\ cc_pc = "Gather"
    /\ marks' = [e \in froms_tos |-> FALSE]
    /\ cc_pc' = IF cc_turn = 0 THEN "HookInit" ELSE "PtrJump"
    /\ cc_todo' = IF cc_turn = 0 THEN froms_tos ELSE CCVertices
    /\ cc_turn' = cc_turn + 1
    /\ UNCHANGED <<froms_tos, component_ids, masks, vertex_flag, edge_flag>>

\* One thread of the running filter kernel applies the functor to its element.
CCFunctor(x) ==
    /\ cc_pc \notin {"idle", "Gather", "Stop_Condition", "stopped"}
    /\ cc_todo' = cc_todo \ {x}
    /\ component_ids' = FunctorIds(cc_pc, x, component_ids, masks, marks)
    /\ masks' = FunctorMasks(cc_pc, x, component_ids, masks)
    /\ marks' = IF cc_pc = "HookMax" /\ component_ids[x[1]] = component_ids[x[2]]
                THEN [marks EXCEPT ![x] = TRUE] ELSE marks
    /\ vertex_flag' = IF ClearsVertexFlag(cc_pc, x, component_ids, masks)
                      THEN 0 ELSE vertex_flag
    /\ edge_flag' = IF ClearsEdgeFlag(cc_pc, x, component_ids, marks)
                    THEN 0 ELSE edge_flag
    /\ UNCHANGED <<cc_pc, froms_tos, cc_turn>>

\* The kernel has finished: the host reads the flag back and launches the next
\* kernel, with its flag set to 1 beforehand.
CCHost ==
    /\ cc_pc \in {"HookInit", "PtrJump", "UpdateMask0", "HookMax",
                  "PtrJumpMask", "PtrJumpUnmask", "UpdateMask"}
    /\ cc_todo = {}
    /\ cc_pc' = NextKernel(cc_pc, vertex_flag, edge_flag)
    /\ cc_todo' = IF cc_pc' = "Stop_Condition" THEN {} ELSE ElementsOf(cc_pc')
    /\ vertex_flag' = 1
    /\ edge_flag' = 1
    /\ UNCHANGED <<froms_tos, component_ids, masks, marks, cc_turn>>

\* Stop_Condition of a single device: num_gpus < 2 and turn > 0.
CCStop ==
    /\ cc_pc = "Stop_Condition"
    /\ cc_pc' = IF num_gpus < 2 /\ cc_turn > 0 THEN "stopped" ELSE "Gather"
    /\ UNCHANGED <<froms_tos, component_ids, masks, marks, vertex_flag,
                   edge_flag, cc_todo, cc_turn>>

\* The buffers of the stream model: the two frontier slots, the forward
\* output and the incoming queue.
Buffers == {"keys0", "keys1", "forward_output", "keys_out"}

\* The stream model at rest.
IdleStream ==
    /\ st_pc = "idle"
    /\ st_phase = "forward"
    /\ st_iteration = 0
    /\ stream_q = << >>
    /\ st_counter = 0
    /\ st_queue_length = 0
    /\ st_offsets = << >>
    /\ st_size = [b \in Buffers |-> 0]
    /\ st_produced = << >>
    /\ st_growths = {}

\* The library entry points at rest.
IdleApp ==
    /\ app_pc = "idle"
    /\ app_alg = "cc"
    /\ VALUE_TYPE = "VALUE_INT"
    /\ source_mode = "manually"
    /\ random_bits = 0
    /\ csr_nodes = 1
    /\ app_src = 0
    /\ node_value1 = "unset"
    /\ app_printed = FALSE

\* The workers between the two phases at rest.
IdleBoundary ==
    /\ bb_pc = << >>
    /\ bb_iteration = << >>
    /\ bb_max = << >>
    /\ bb_gpu = << >>
    /\ bb_fwd = << >>
    /\ bb_barrier = <<0, 0>>

Init ==
    InitEnactor /\ InitWP /\ IdleAdvance /\ IdleCore /\ IdleMerge /\ IdleCC /\
    IdleStream /\ IdleApp /\ IdleBoundary

\* The number of input elements of the step about to be launched.
StepInputLen ==
    IF wp_queue_reset THEN wp_queue_length
    ELSE LoadQueueLength(d_counters, wp_queue_index)

\* The host launches the next step on the stream: queue_reset and queue_length
\* are passed by value, output_queue_len[0] has been computed by the scan.
WP_Launch ==
    /\ wp_pc = "host"
    /\ wp_steps < MaxSteps
    /\ \E total \in 0 .. NumBlocks * PartitionSize :
           /\ (StepInputLen = 0) => (total = 0)
           /\ output_queue_len' = total
    /\ wp_pc' = "kernel"
    /\ wp_steps' = wp_steps + 1
    /\ blocks_todo' = 0 .. NumBlocks - 1
    /\ d_out_count' = 0
    /\ input_queue_len' = wp_queue_length
    /\ UNCHANGED <<d_counters, wp_queue_index, wp_queue_reset, wp_queue_length,
                   produced>>
    /\ UNCHANGED nonWpVars

\* One thread block of the kernel runs to completion; the blocks of a grid run
\* in any order.  Only block 0 touches the counters.
WP_Block(bid) ==
    /\ wp_pc = "kernel"
    /\ bid \in blocks_todo
    /\ blocks_todo' = blocks_todo \ {bid}
    /\ IF bid = 0
       THEN /\ d_counters' = AdvancePrologue(d_counters, wp_queue_reset,
                                             wp_queue_length, wp_queue_index,
                                             output_queue_len)
            /\ input_queue_len' = PrologueInputLen(d_counters, wp_queue_reset,
                                                   wp_queue_length, wp_queue_index)
       ELSE UNCHANGED <<d_counters, input_queue_len>>
    /\ d_out_count' = d_out_count + BlockOutputs(bid, output_queue_len)
    /\ UNCHANGED <<wp_pc, wp_steps, wp_queue_index, wp_queue_reset,
                   wp_queue_length, output_queue_len, produced>>
    /\ UNCHANGED nonWpVars

\* The kernel has finished.  Within FullQueue_Core the host goes on with
\* queue_reset = false; queue_index++; at the end of the core it reads the
\* length back with GetQueueLength(queue_index) and the next core starts with
\* queue_reset = true.
WP_Complete ==
    /\ wp_pc = "kernel"
    /\ blocks_todo = {}
    /\ wp_pc' = "host"
    /\ wp_queue_index' = wp_queue_index + 1
    /\ produced' = d_out_count
    /\ \/ /\ wp_queue_reset' = FALSE
          /\ UNCHANGED wp_queue_length
       \/ /\ wp_queue_reset' = TRUE
          /\ wp_queue_length' = LoadQueueLength(d_counters, wp_queue_index + 1)
    /\ UNCHANGED <<d_counters, wp_steps, input_queue_len, output_queue_len,
                   blocks_todo, d_out_count>>
    /\ UNCHANGED nonWpVars

\* ------------------------------------------------------------- host thread
\* problem->Reset(src, ...) followed by enactor->Reset(): all per-run state of
\* the problem and the enactor statistics are reinitialised.  thread_slices and
\* cpu_barrier are private members of the derived enactor and are not touched.
Reset ==
    /\ cpc \in {"init", "returned"}
    /\ runs < MaxRuns
    /\ cpc' = "ready"
    /\ queue_length' = PerGpu(num_gpus, 0)
    /\ queue_index' = PerGpu(num_gpus, 0)
    /\ selector' = PerGpu(num_gpus, 0)
    /\ keys' = ResetKeys(num_gpus, src_gpu, alg)
    /\ forward_queue_offsets' = PerGpu(num_gpus, <<0>>)
    /\ forward_output' = PerGpu(num_gpus, << >>)
    /\ turn' = PerGpu(num_gpus, 0)
    /\ in_length' = PerGpu(num_gpus, 0)
    /\ out_length' = PerGpu(num_gpus, 0)
    /\ iteration' = PerGpu(num_gpus, 0)
    /\ retval' = [s \in Slots |-> cudaSuccess]
    /\ recorded' = PerGpu(num_gpus, << >>)
    /\ fwd_iters' = PerGpu(num_gpus, 0)
    /\ bwd_iters' = PerGpu(num_gpus, 0)
    /\ bwd_inputs' = PerGpu(num_gpus, << >>)
    /\ gather_kind' = PerGpu(num_gpus, "none")
    /\ UNCHANGED <<alg, num_gpus, src_gpu, cgpu, runs, enact_retval, stats, wpc,
                   init_size, faults, fq_selector, cpu_barrier, boundary_written>>

\* An Enact that gives every device an initial frontier.
EnactInitSizeAll(gpu) == 1

\* EnactBC: init_size is 1 on the device owning the source, else 0.
EnactInitSize(gpu) == IF num_gpus = 1 \/ gpu = src_gpu THEN 1 ELSE 0

\* Entry of Enact: BC assigns init_size, then both enactors start polling.
EnactCall ==
    /\ cpc = "ready"
    /\ cpc' = "wait1"
    /\ cgpu' = 0
    /\ runs' = runs + 1
    /\ init_size' = IF alg = "BC" THEN [g \in Devices |-> EnactInitSize(g)]
                    ELSE init_size
    /\ enact_retval' = cudaSuccess
    /\ UNCHANGED <<alg, num_gpus, src_gpu, stats, wpc, retval,
                   faults, cpu_barrier, boundary_written>>
    /\ UNCHANGED <<dataVars, histVars>>

\* The controller's first loop without its wait: the flag is set to 2 whatever
\* the worker has announced.
CtlWait1_Unchecked ==
    /\ cpc = "wait1"
    /\ stats' = [stats EXCEPT ![cgpu] = 2]
    /\ IF cgpu + 1 < num_gpus
       THEN cgpu' = cgpu + 1 /\ cpc' = cpc
       ELSE cgpu' = 0 /\ cpc' = "wait4"
    /\ UNCHANGED <<alg, num_gpus, src_gpu, runs, enact_retval, wpc, init_size,
                   retval, faults, cpu_barrier, boundary_written>>
    /\ UNCHANGED <<dataVars, histVars>>

\* while (thread_slices[gpu].stats != 1) sleep(0); thread_slices[gpu].stats = 2;
CtlWait1 ==
    /\ cpc = "wait1"
    /\ stats[cgpu] = 1
    /\ stats' = [stats EXCEPT ![cgpu] = 2]
    /\ IF cgpu + 1 < num_gpus
       THEN cgpu' = cgpu + 1 /\ cpc' = cpc
       ELSE cgpu' = 0 /\ cpc' = "wait4"
    /\ UNCHANGED <<alg, num_gpus, src_gpu, runs, enact_retval, wpc, init_size,
                   retval, faults, cpu_barrier, boundary_written>>
    /\ UNCHANGED <<dataVars, histVars>>

\* A weaker test of the worker's flag: it has passed the handshake.
WorkerPastHandshake(gpu) == stats[gpu] >= 3

\* The flag value the controller's second loop waits for on a device.
WorkerDone(gpu) == stats[gpu] = 4

\* while (thread_slices[gpu].stats != 4) sleep(0);
CtlWait4 ==
    /\ cpc = "wait4"
    /\ WorkerDone(cgpu)
    /\ IF cgpu + 1 < num_gpus
       THEN cgpu' = cgpu + 1 /\ cpc' = cpc
       ELSE cgpu' = 0 /\ cpc' = "check"
    /\ UNCHANGED <<alg, num_gpus, src_gpu, runs, enact_retval, stats, wpc,
                   init_size, retval, faults, cpu_barrier, boundary_written>>
    /\ UNCHANGED <<dataVars, histVars>>

\* for (gpu = 0; gpu < num_gpus; gpu++) if (enactor_stats[gpu].retval != cudaSuccess)
\*     { retval = enactor_stats[gpu].retval; break; }
EnactScan ==
    IF \E s \in 0 .. num_gpus - 1 : retval[s] # cudaSuccess
    THEN retval[CHOOSE s \in 0 .. num_gpus - 1 :
                    /\ retval[s] # cudaSuccess
                    /\ \A t \in 0 .. s - 1 : retval[t] = cudaSuccess]
    ELSE cudaSuccess

CtlCheck ==
    /\ cpc = "check"
    /\ enact_retval' = EnactScan
    /\ cpc' = "returned"
    /\ UNCHANGED <<alg, num_gpus, src_gpu, cgpu, runs, stats, wpc, init_size,
                   retval, faults, cpu_barrier, boundary_written>>
    /\ UNCHANGED <<dataVars, histVars>>

\* ------------------------------------------------------------- stop conditions
AnyError == \E s \in Slots : retval[s] # cudaSuccess

\* All_Done of the enactor base: an error, or no queued work and no pending
\* cross-device transfer on any device.
All_Done ==
    \/ AnyError
    \/ \A g \in Devices :
           queue_length[g] = 0 /\ in_length[g] = 0 /\ out_length[g] = 0

\* Forward_Iteration inherits the base Stop_Condition.
Forward_Stop_Condition == All_Done

\* Backward_Iteration::Stop_Condition without its scan of the retval slots.
Backward_Stop_Unchecked ==
    IF All_Done
    THEN ~ \E g \in Devices : iteration[g] > 1
    ELSE FALSE

\* Backward_Iteration::Stop_Condition.
Backward_Stop_Condition ==
    IF AnyError THEN TRUE
    ELSE IF All_Done
         THEN ~ \E g \in Devices : iteration[g] > 1
         ELSE FALSE

\* The single-device shortcut of CCIteration::Stop_Condition, taken for any
\* number of devices.
CC_Stop_AfterFirstTurn ==
    IF AnyError THEN TRUE ELSE turn[0] > 0

\* CCIteration::Stop_Condition.
CC_Stop_Condition ==
    IF AnyError THEN TRUE
    ELSE IF num_gpus < 2 /\ turn[0] > 0 THEN TRUE
    ELSE IF \E g \in Devices : turn[g] = 0 THEN FALSE
    ELSE IF \E g \in Devices : in_length[g] # 0 THEN FALSE
    ELSE IF \E g \in Devices : out_length[g] # 0 THEN FALSE
    ELSE TRUE

\* ------------------------------------------------------------- worker threads
\* Entry of CCThread / BCThread: SetDevice, then announce readiness (stats = 1).
\* A failing SetDevice stores its status in the worker's own slot and breaks
\* out of the do-while, so the worker goes straight to stats = 4.
W_Start(g) ==
    /\ wpc[g] = "start"
    /\ \/ /\ stats' = [stats EXCEPT ![g] = 1]
          /\ wpc' = [wpc EXCEPT ![g] = "wait2"]
          /\ UNCHANGED <<retval, faults>>
       \/ /\ CanFault
          /\ retval' = [retval EXCEPT ![OwnSlot(g)] = cudaErrorFault]
          /\ faults' = faults + 1
          /\ stats' = [stats EXCEPT ![g] = 4]
          /\ wpc' = [wpc EXCEPT ![g] = "ended"]
    /\ UNCHANGED <<alg, num_gpus, src_gpu, init_size, cpu_barrier,
                   boundary_written>>
    /\ UNCHANGED <<hostVars, dataVars, histVars>>

\* BCThread: frontier_attribute[0].queue_length = init_size, and the selector
\* is 1 exactly when that length is not 0.  CCThread: both are 0.
BeginQueueLength(g) == IF alg = "BC" THEN init_size[g] ELSE 0
BeginSelector(g) == IF BeginQueueLength(g) = 0 THEN 0 ELSE 1

\* while (thread_data->stats != 2) sleep(0); thread_data->stats = 3; then the
\* frontier attributes and the iteration counter are initialised.
W_Begin(g) ==
    /\ wpc[g] = "wait2"
    /\ stats[g] = 2
    /\ stats' = [stats EXCEPT ![g] = 3]
    /\ wpc' = [wpc EXCEPT ![g] = IF alg = "BC" THEN "fwd" ELSE "loop"]
    /\ queue_index' = [queue_index EXCEPT ![g] = 0]
    /\ queue_length' = [queue_length EXCEPT ![g] = BeginQueueLength(g)]
    /\ selector' = [selector EXCEPT ![g] = BeginSelector(g)]
    /\ iteration' = [iteration EXCEPT ![g] = 0]
    /\ UNCHANGED <<alg, num_gpus, src_gpu, init_size, retval, faults,
                   cpu_barrier, boundary_written, fq_selector, keys,
                   forward_queue_offsets, forward_output, turn, in_length,
                   out_length>>
    /\ UNCHANGED <<hostVars, histVars>>

\* ------------------------------------------------------------- BC forward phase
\* Forward_Iteration::FullQueue_Gather: nothing at iteration <= 0; otherwise the
\* input frontier is copied to forward_output at the last recorded offset and
\* the new end offset is pushed onto the log.
Forward_Gather_Lengths(g) ==
    IF iteration[g] <= 0 THEN forward_queue_offsets[g]
    ELSE Append(forward_queue_offsets[g], queue_length[g])

Forward_Gather_Offsets(g) ==
    IF iteration[g] <= 0 THEN forward_queue_offsets[g]
    ELSE Append(forward_queue_offsets[g],
                queue_length[g] + Last(forward_queue_offsets[g]))

Forward_Gather_Output(g) ==
    IF iteration[g] <= 0 THEN forward_output[g]
    ELSE WriteBuf(forward_output[g], Last(forward_queue_offsets[g]),
                  InputFrontier(g))

Forward_Gather_Recorded(g) ==
    IF iteration[g] <= 0 THEN recorded[g]
    ELSE Append(recorded[g], InputFrontier(g))

\* Lengths the advance + filter of FullQueue_Core may leave in queue_length:
\* a device can only get new vertices while it or a peer still has queued work,
\* and the BFS depth of the modelled graphs is below MaxIter.
CoreOutputs(g) ==
    IF iteration[g] + 1 < MaxIter /\ \E h \in Devices : queue_length[h] > 0
    THEN 0 .. MaxLen
    ELSE {0}

\* One body of Iteration_Loop<.., Forward_Iteration>: FullQueue_Gather,
\* FullQueue_Core (advance, filter, GetQueueLength), Iteration_Change.  A step
\* that records an error returns at once and the loop goes back to its test.
ForwardIteration(g) ==
    /\ alg = "BC"
    /\ wpc[g] = "fwd"
    /\ ~ Forward_Stop_Condition
    /\ iteration[g] < MaxIter
    /\ \/ \E len \in CoreOutputs(g) :
             /\ forward_queue_offsets' =
                    [forward_queue_offsets EXCEPT ![g] = Forward_Gather_Offsets(g)]
             /\ forward_output' =
                    [forward_output EXCEPT ![g] = Forward_Gather_Output(g)]
             /\ recorded' = [recorded EXCEPT ![g] = Forward_Gather_Recorded(g)]
             /\ keys' = [keys EXCEPT ![g] =
                            [s \in 0 .. 1 |-> Level(iteration[g] + 1, len)]]
             /\ queue_length' = [queue_length EXCEPT ![g] = len]
             /\ queue_index' = [queue_index EXCEPT ![g] = @ + 2]
             /\ iteration' = [iteration EXCEPT ![g] = @ + 1]
             /\ fwd_iters' = [fwd_iters EXCEPT ![g] = @ + 1]
             /\ UNCHANGED <<retval, faults>>
       \/ \* Check_Size("forward_output") fails in FullQueue_Gather
          /\ CanFault
          /\ iteration[g] > 0
          /\ retval' = [retval EXCEPT ![OwnSlot(g)] = cudaErrorFault]
          /\ faults' = faults + 1
          /\ UNCHANGED <<forward_queue_offsets, forward_output, recorded, keys,
                         queue_length, queue_index, iteration, fwd_iters>>
       \/ \* a kernel or GetQueueLength fails in FullQueue_Core
          /\ CanFault
          /\ forward_queue_offsets' =
                 [forward_queue_offsets EXCEPT ![g] = Forward_Gather_Offsets(g)]
          /\ forward_output' =
                 [forward_output EXCEPT ![g] = Forward_Gather_Output(g)]
          /\ recorded' = [recorded EXCEPT ![g] = Forward_Gather_Recorded(g)]
          /\ retval' = [retval EXCEPT ![OwnSlot(g)] = cudaErrorFault]
          /\ faults' = faults + 1
          /\ UNCHANGED <<keys, queue_length, queue_index, iteration, fwd_iters>>
       \/ \* Expand_Incoming for a peer fails: recorded in the slot of that peer
          /\ CanFault
          /\ \E peer \in 1 .. num_gpus - 1 :
                 retval' = [retval EXCEPT ![OwnSlot(g) + peer] = cudaErrorFault]
          /\ faults' = faults + 1
          /\ UNCHANGED <<forward_queue_offsets, forward_output, recorded, keys,
                         queue_length, queue_index, iteration, fwd_iters>>
    /\ UNCHANGED <<alg, num_gpus, src_gpu, stats, wpc, init_size, cpu_barrier,
                   boundary_written, selector, fq_selector, turn, in_length,
                   out_length, bwd_iters, bwd_inputs, gather_kind>>
    /\ UNCHANGED hostVars

\* IncrementnWaitBarrier: arrive, then wait until all num_gpus threads arrived.
BarrierOpen(b) == cpu_barrier[b] = num_gpus

\* The forward loop has ended.  With several devices the worker copies sigmas
\* and labels to the host and arrives at cpu_barrier[0]; with one device it
\* goes on to the backward loop.
ForwardExit(g) ==
    /\ alg = "BC"
    /\ wpc[g] = "fwd"
    /\ Forward_Stop_Condition
    /\ IF num_gpus > 1
       THEN /\ cpu_barrier' = [cpu_barrier EXCEPT ![0] = @ + 1]
            /\ wpc' = [wpc EXCEPT ![g] = "bar0"]
       ELSE /\ wpc' = [wpc EXCEPT ![g] = "bwd"]
            /\ UNCHANGED cpu_barrier
    /\ UNCHANGED <<alg, num_gpus, src_gpu, stats, init_size, retval, faults,
                   boundary_written>>
    /\ UNCHANGED <<hostVars, dataVars, histVars>>

\* max over the devices of s_enactor_stats[gpu*num_gpus].iteration
MaxIteration ==
    CHOOSE m \in 0 .. MaxIter :
        /\ \A g \in Devices : iteration[g] <= m
        /\ \/ m = 0
           \/ \E g \in Devices : iteration[g] = m

\* while (forward_queue_offsets[0].size() < max_iteration) push_back(back())
RECURSIVE PadOffsets(_, _)
PadOffsets(offsets, m) ==
    IF Len(offsets) < m THEN PadOffsets(Append(offsets, Last(offsets)), m)
    ELSE offsets

\* Between the two barriers: the log is padded to max_iteration entries, the
\* iteration counter is set to max_iteration, the boundary sigmas and labels are
\* written into the peers' data slices, and the worker arrives at cpu_barrier[1].
SyncBoundary(g) ==
    /\ alg = "BC"
    /\ wpc[g] = "bar0"
    /\ BarrierOpen(0)
    /\ forward_queue_offsets' =
           [forward_queue_offsets EXCEPT ![g] = PadOffsets(@, MaxIteration)]
    /\ iteration' = [iteration EXCEPT ![g] = MaxIteration]
    /\ boundary_written' = [boundary_written EXCEPT ![g] = TRUE]
    /\ cpu_barrier' = [cpu_barrier EXCEPT ![1] = @ + 1]
    /\ wpc' = [wpc EXCEPT ![g] = "bar1"]
    /\ UNCHANGED <<alg, num_gpus, src_gpu, stats, init_size, retval, faults,
                   queue_length, queue_index, selector, fq_selector, keys,
                   forward_output, turn, in_length, out_length>>
    /\ UNCHANGED <<hostVars, histVars>>

\* Arrival at cpu_barrier[1] without the wait.
BackwardEnterNoWait(g) == wpc[g] = "bar1"

\* The wait of IncrementnWaitBarrier(&cpu_barrier[1]) that precedes the
\* backward loop.
BackwardEnterGuard(g) == wpc[g] = "bar1" /\ BarrierOpen(1)

BackwardEnter(g) ==
    /\ alg = "BC"
    /\ BackwardEnterGuard(g)
    /\ wpc' = [wpc EXCEPT ![g] = "bwd"]
    /\ UNCHANGED <<alg, num_gpus, src_gpu, stats, init_size, retval, faults,
                   cpu_barrier, boundary_written>>
    /\ UNCHANGED <<hostVars, dataVars, histVars>>

\* ------------------------------------------------------------- BC backward phase
\* Backward_Iteration::FullQueue_Gather reads back(), pops, and reads back()
\* again.  back() on an emptied vector and pop_back() on an empty one are
\* undefined: the value read is arbitrary and the vector stays unusable.
CurPosChoices(offsets) ==
    IF Len(offsets) >= 1 THEN {Last(offsets)} ELSE GarbageOffsets

PrePosChoices(offsets) ==
    IF Len(offsets) >= 2 THEN {offsets[Len(offsets) - 1]} ELSE GarbageOffsets

PopBack(offsets) == IF Len(offsets) >= 1 THEN Front(offsets) ELSE << >>

GatherKind(offsets) ==
    IF Len(offsets) >= 2 THEN "replay"
    ELSE IF Len(offsets) = 1 THEN "base" ELSE "empty"

\* if (iteration > 0 && cur_pos - pre_pos > 0) queue_length = cur_pos - pre_pos;
\* else queue_length = 0;
Backward_Gather_Length(g, cur_pos, pre_pos) ==
    IF iteration[g] > 0 /\ cur_pos - pre_pos > 0 THEN cur_pos - pre_pos ELSE 0

\* The copy goes to keys[frontier_queue->selector].
Backward_Gather_Keys(g, pre_pos, len) ==
    IF len > 0
    THEN [keys[g] EXCEPT ![fq_selector[g]] = ReadBuf(forward_output[g], pre_pos, len)]
    ELSE keys[g]

\* A gather that leaves frontier_attribute->selector as the forward loop left it.
Backward_Gather_KeepSelector(sel) == sel

\* frontier_attribute->selector = 0;
Backward_Gather_Selector(sel) == 0

\* Iteration_Change(iterations) { iterations--; }
Backward_Iteration_Change(iterations) == iterations - 1

\* One body of Iteration_Loop<.., Backward_Iteration>: FullQueue_Gather, then
\* FullQueue_Core reading keys[frontier_attribute->selector], which the gather
\* has set to 0, then Iteration_Change.
BackwardIteration(g) ==
    /\ alg = "BC"
    /\ wpc[g] = "bwd"
    /\ ~ Backward_Stop_Condition
    /\ iteration[g] > - MaxIter
    /\ \E cur_pos \in CurPosChoices(forward_queue_offsets[g]),
          pre_pos \in PrePosChoices(forward_queue_offsets[g]) :
          LET len == Backward_Gather_Length(g, cur_pos, pre_pos)
              newkeys == Backward_Gather_Keys(g, pre_pos, len)
          IN  /\ forward_queue_offsets' =
                     [forward_queue_offsets EXCEPT ![g] = PopBack(@)]
              /\ gather_kind' =
                     [gather_kind EXCEPT ![g] = GatherKind(forward_queue_offsets[g])]
              /\ selector' = [selector EXCEPT ![g] = Backward_Gather_Selector(@)]
              /\ queue_length' = [queue_length EXCEPT ![g] = len]
              /\ keys' = [keys EXCEPT ![g] = newkeys]
              /\ \/ /\ bwd_inputs' = [bwd_inputs EXCEPT ![g] =
                                         Append(@, ReadBuf(
                                             newkeys[Backward_Gather_Selector(selector[g])],
                                             0, len))]
                    /\ iteration' = [iteration EXCEPT ![g] =
                                        Backward_Iteration_Change(@)]
                    /\ bwd_iters' = [bwd_iters EXCEPT ![g] = @ + 1]
                    /\ UNCHANGED <<retval, faults>>
                 \/ \* Check_Size of the gather or the advance of the core fails
                    /\ CanFault
                    /\ retval' = [retval EXCEPT ![OwnSlot(g)] = cudaErrorFault]
                    /\ faults' = faults + 1
                    /\ UNCHANGED <<bwd_inputs, iteration, bwd_iters>>
    /\ UNCHANGED <<alg, num_gpus, src_gpu, stats, wpc, init_size, cpu_barrier,
                   boundary_written, queue_index, fq_selector, forward_output,
                   turn, in_length, out_length, recorded, fwd_iters>>
    /\ UNCHANGED hostVars

\* The backward loop has ended: thread_data->stats = 4.
BackwardExit(g) ==
    /\ alg = "BC"
    /\ wpc[g] = "bwd"
    /\ Backward_Stop_Condition
    /\ wpc' = [wpc EXCEPT ![g] = "ended"]
    /\ stats' = [stats EXCEPT ![g] = 4]
    /\ UNCHANGED <<alg, num_gpus, src_gpu, init_size, retval, faults,
                   cpu_barrier, boundary_written>>
    /\ UNCHANGED <<hostVars, dataVars, histVars>>

\* ------------------------------------------------------------- CC loop
\* Whether the hooking of this turn may still change a component id: the
\* modelled graphs converge within MaxTurn turns.
MayChange(g) == IF turn[g] < MaxTurn THEN {0, 1} ELSE {0}

\* data_slice->turn++, kept within the modelled range.
NextTurn(t) == IF t < MaxTurn THEN t + 1 ELSE t

\* One body of Iteration_Loop<.., CCIteration>: FullQueue_Gather (turn++),
\* FullQueue_Core (which ends with iteration = turn), Iteration_Change, and
\* with several devices Make_Output, which sets
\* out_length to the number of changed component ids; the changed ids are
\* pushed to the peers, whose in_length becomes non-zero until they expand them.
CCIterate(g) ==
    /\ alg = "CC"
    /\ wpc[g] = "loop"
    /\ ~ CC_Stop_Condition
    /\ \/ \E changed \in MayChange(g) :
             /\ turn' = [turn EXCEPT ![g] = NextTurn(@)]
             /\ queue_length' = [queue_length EXCEPT ![g] = changed]
             /\ iteration' = [iteration EXCEPT ![g] = NextTurn(turn[g]) + 1]
             /\ IF num_gpus > 1
                THEN /\ out_length' = [out_length EXCEPT ![g] = changed]
                     /\ in_length' = [h \in Devices |->
                                         IF h = g THEN 0
                                         ELSE IF changed > 0 THEN changed
                                         ELSE in_length[h]]
                ELSE UNCHANGED <<out_length, in_length>>
             /\ UNCHANGED <<retval, faults>>
       \/ /\ CanFault
          /\ \E peer \in Devices :
                 retval' = [retval EXCEPT ![OwnSlot(g) + peer] = cudaErrorFault]
          /\ faults' = faults + 1
          /\ UNCHANGED <<turn, queue_length, iteration, out_length, in_length>>
    /\ UNCHANGED <<alg, num_gpus, src_gpu, stats, wpc, init_size, cpu_barrier,
                   boundary_written, queue_index, selector, fq_selector, keys,
                   forward_queue_offsets, forward_output>>
    /\ UNCHANGED <<hostVars, histVars>>

\* The CC loop has ended: thread_data->stats = 4.
CCExit(g) ==
    /\ alg = "CC"
    /\ wpc[g] = "loop"
    /\ CC_Stop_Condition
    /\ wpc' = [wpc EXCEPT ![g] = "ended"]
    /\ stats' = [stats EXCEPT ![g] = 4]
    /\ UNCHANGED <<alg, num_gpus, src_gpu, init_size, retval, faults,
                   cpu_barrier, boundary_written>>
    /\ UNCHANGED <<hostVars, dataVars, histVars>>

\* ------------------------------------------------------------- specification
Next ==
    \/ Reset /\ UNCHANGED nonEnactorVars
    \/ EnactCall /\ UNCHANGED nonEnactorVars
    \/ CtlWait1 /\ UNCHANGED nonEnactorVars
    \/ CtlWait4 /\ UNCHANGED nonEnactorVars
    \/ CtlCheck /\ UNCHANGED nonEnactorVars
    \/ (\E g \in Devices : W_Start(g)) /\ UNCHANGED nonEnactorVars
    \/ (\E g \in Devices : W_Begin(g)) /\ UNCHANGED nonEnactorVars
    \/ (\E g \in Devices : ForwardIteration(g)) /\ UNCHANGED nonEnactorVars
    \/ (\E g \in Devices : ForwardExit(g)) /\ UNCHANGED nonEnactorVars
    \/ (\E g \in Devices : SyncBoundary(g)) /\ UNCHANGED nonEnactorVars
    \/ (\E g \in Devices : BackwardEnter(g)) /\ UNCHANGED nonEnactorVars
    \/ (\E g \in Devices : BackwardIteration(g)) /\ UNCHANGED nonEnactorVars
    \/ (\E g \in Devices : BackwardExit(g)) /\ UNCHANGED nonEnactorVars
    \/ (\E g \in Devices : CCIterate(g)) /\ UNCHANGED nonEnactorVars
    \/ (\E g \in Devices : CCExit(g)) /\ UNCHANGED nonEnactorVars

Spec == Init /\ [][Next]_vars

\* The controller thread inside Enact: it is scheduled again and again.
ControllerStep ==
    (CtlWait1 \/ CtlWait4 \/ CtlCheck) /\ UNCHANGED nonEnactorVars

\* The worker thread of one device.
WorkerStep(g) ==
    /\ g \in Devices
    /\ \/ W_Start(g) \/ W_Begin(g) \/ ForwardIteration(g) \/ ForwardExit(g)
       \/ SyncBoundary(g) \/ BackwardEnter(g) \/ BackwardIteration(g)
       \/ BackwardExit(g) \/ CCIterate(g) \/ CCExit(g)
    /\ UNCHANGED nonEnactorVars

\* Every thread that can take a step eventually takes one; the caller is free
\* to call Reset and Enact or not.
Fairness ==
    /\ WF_vars(ControllerStep)
    /\ \A g \in 0 .. MaxGpus - 1 : WF_vars(WorkerStep(g))

FairSpec == Init /\ [][Next]_vars /\ Fairness

\* The work-progress counters of one stream, driven step by step.
NextWP ==
    \/ WP_Launch
    \/ \E bid \in 0 .. NumBlocks - 1 : WP_Block(bid)
    \/ WP_Complete

SpecWP == Init /\ [][NextWP]_vars

\* One advance step on one device, from the frontier to the last block.
NextAdvance ==
    \/ AdvGetEdgeCounts /\ UNCHANGED nonAdvVars
    \/ AdvScan /\ UNCHANGED nonAdvVars
    \/ AdvLaunchLight /\ UNCHANGED nonAdvVars
    \/ AdvLaunchPartitioned /\ UNCHANGED nonAdvVars
    \/ (\E bid \in 0 .. MaxFrontier : AdvBlock(bid)) /\ UNCHANGED nonAdvVars
    \/ AdvDone /\ UNCHANGED nonAdvVars

\* The operator launches of one worker during one run.
NextCore ==
    \/ ForwardAdvance /\ UNCHANGED nonCoreVars
    \/ ForwardFilter /\ UNCHANGED nonCoreVars
    \/ BackwardAdvance /\ UNCHANGED nonCoreVars
    \/ CCFilter /\ UNCHANGED nonCoreVars
    \/ CCTurnEnd /\ UNCHANGED nonCoreVars

SingleDevice == alg = "BC" /\ num_gpus = 1

\* The state in which the advance step starts; the other parts of the model stay idle.
StartAdvance ==
    /\ InitEnactor /\ SingleDevice /\ InitWP /\ InitAdvance /\ IdleCore
    /\ IdleMerge /\ IdleCC /\ IdleStream /\ IdleApp /\ IdleBoundary

SpecAdvance == StartAdvance /\ [][NextAdvance]_vars

\* One exchange round: the threads handle the elements in any order.
NextMerge ==
    \/ (\E el \in Elements : MergeRead(el)) /\ UNCHANGED nonMergeVars
    \/ (\E t \in inflight : MergeWrite(t)) /\ UNCHANGED nonMergeVars
    \/ (\E el \in Elements : MergeApply(el)) /\ UNCHANGED nonMergeVars

\* The state in which the exchange round starts; the other parts of the model stay idle.
StartMerge ==
    /\ InitEnactor /\ SingleDevice /\ InitWP /\ IdleAdvance /\ IdleCore
    /\ InitMerge /\ IdleCC /\ IdleStream /\ IdleApp /\ IdleBoundary

SpecMerge == StartMerge /\ [][NextMerge]_vars

\* A single-device CC run.
NextCC ==
    \/ CCGather /\ UNCHANGED nonCCVars
    \/ (\E x \in cc_todo : CCFunctor(x)) /\ UNCHANGED nonCCVars
    \/ CCHost /\ UNCHANGED nonCCVars
    \/ CCStop /\ UNCHANGED nonCCVars

SingleDeviceCC == alg = "CC" /\ num_gpus = 1

\* The state in which the CC run starts; the other parts of the model stay idle.
StartCC ==
    /\ InitEnactor /\ SingleDeviceCC /\ InitWP /\ IdleAdvance /\ IdleCore
    /\ IdleMerge /\ InitCC /\ IdleStream /\ IdleApp /\ IdleBoundary

SpecCC == StartCC /\ [][NextCC]_vars

\* The stream of the CC run executes what the host has enqueued: a launched
\* kernel runs all of its threads, cudaStreamSynchronize returns, and the host
\* thread goes on with its next statement.
CCStep ==
    (CCGather \/ (\E x \in cc_todo : CCFunctor(x)) \/ CCHost \/ CCStop)
        /\ UNCHANGED nonCCVars

FairnessCC == WF_vars(CCStep)

FairSpecCC == StartCC /\ [][NextCC]_vars /\ FairnessCC

\* The state in which the operator steps starts; the other parts of the model stay idle.
StartCore ==
    /\ InitEnactor /\ SingleDevice /\ InitWP /\ IdleAdvance /\ InitCore
    /\ IdleMerge /\ IdleCC /\ IdleStream /\ IdleApp /\ IdleBoundary

SpecCore == StartCore /\ [][NextCore]_vars

\* ------------------------------------------------------------- stream order
\* One device's stream during a BC run: the host calls of one step enqueue
\* kernels and copies on the stream, the device executes them in order.
StreamOp(kernel, len, bufs) ==
    [kernel |-> kernel, phase |-> st_phase, iteration |-> st_iteration,
     length |-> len, bufs |-> bufs]

\* The kernels still in flight that read or write the buffer.
InFlightUsers(buf) ==
    {stream_q[i].kernel : i \in {j \in DOMAIN stream_q : buf \in stream_q[j].bufs}}

\* The Check_Size call reallocates the array.
NeedsGrowth(buf, target) == Check_Size(st_size[buf], target) # st_size[buf]

SizeAfterCheck(buf, target) ==
    [st_size EXCEPT ![buf] = Check_Size(@, target)]

GrowthsAfter(buf, target) ==
    IF NeedsGrowth(buf, target)
    THEN st_growths \cup {[buffer |-> buf, phase |-> st_phase,
                           users |-> InFlightUsers(buf)]}
    ELSE st_growths

\* The wait that ignores the stream.
StreamUnsynchronized(q) == TRUE

\* cudaStreamSynchronize(stream) returns once the stream is empty.
StreamSynchronized(q) == q = << >>

\* Reset on the device that owns the source: one vertex in the frontier, the
\* log holds the entry 0, every buffer has room for one element.
InitStream ==
    /\ st_pc = "Expand_Incoming"
    /\ st_phase = "forward"
    /\ st_iteration = 0
    /\ stream_q = << >>
    /\ st_counter = 1
    /\ st_queue_length = 1
    /\ st_offsets = <<0>>
    /\ st_size = [b \in Buffers |-> 1]
    /\ st_produced = << >>
    /\ st_growths = {}

\* Expand_Incoming: Check_Size("queue1", num_elements, keys_out), then the
\* expand kernel on the stream.  Without incoming elements the loop does not
\* call it.
StExpandIncoming ==
    /\ st_pc = "Expand_Incoming"
    /\ st_pc' = "FullQueue_Gather"
    /\ \E num_elements \in 0 .. MaxLen :
           IF num_elements = 0
           THEN UNCHANGED <<stream_q, st_size, st_growths>>
           ELSE /\ st_size' = SizeAfterCheck("keys_out", num_elements)
                /\ st_growths' = GrowthsAfter("keys_out", num_elements)
                /\ stream_q' = Append(stream_q,
                       StreamOp("Expand_Incoming", num_elements, {"keys_out"}))
    /\ UNCHANGED <<st_phase, st_iteration, st_counter, st_queue_length,
                   st_offsets, st_produced>>

\* Forward FullQueue_Gather: nothing at iteration 0; otherwise Check_Size of
\* forward_output, the copy of keys[selector] behind cur_offset on the stream,
\* and the new log entry.
StForwardGather ==
    /\ st_pc = "FullQueue_Gather"
    /\ st_phase = "forward"
    /\ st_pc' = "FullQueue_Core"
    /\ IF st_iteration <= 0
       THEN UNCHANGED <<stream_q, st_size, st_growths, st_offsets>>
       ELSE LET cur_offset == Last(st_offsets)
            IN  /\ st_size' = SizeAfterCheck("forward_output",
                                         cur_offset + st_queue_length)
                /\ st_growths' = GrowthsAfter("forward_output",
                                              cur_offset + st_queue_length)
                /\ stream_q' = Append(stream_q,
                       StreamOp("MemsetCopyVectorKernel", st_queue_length,
                                {"keys1", "forward_output"}))
                /\ st_offsets' = Append(st_offsets, st_queue_length + cur_offset)
    /\ UNCHANGED <<st_phase, st_iteration, st_counter, st_queue_length,
                   st_produced>>

\* Forward FullQueue_Core: the advance (queue_length passed by value), the
\* filter and GetQueueLength go on the stream; the host then waits in
\* cudaStreamSynchronize.
StForwardCore ==
    /\ st_pc = "FullQueue_Core"
    /\ st_phase = "forward"
    /\ st_pc' = "Synchronize"
    /\ stream_q' = stream_q \o
           <<StreamOp("advance", st_queue_length, {"keys0", "keys1"}),
             StreamOp("filter", st_queue_length, {"keys0", "keys1"}),
             StreamOp("GetQueueLength", 0, {})>>
    /\ UNCHANGED <<st_phase, st_iteration, st_counter, st_queue_length,
                   st_offsets, st_size, st_produced, st_growths>>

\* cudaStreamSynchronize(stream) at the end of the forward FullQueue_Core.
StSynchronize ==
    /\ st_pc = "Synchronize"
    /\ StreamSynchronized(stream_q)
    /\ st_pc' = "Iteration_Change"
    /\ UNCHANGED <<st_phase, st_iteration, stream_q, st_counter,
                   st_queue_length, st_offsets, st_size, st_produced,
                   st_growths>>

\* Backward FullQueue_Gather: the last log entry is popped; a non-empty level
\* is copied from forward_output into keys[frontier_queue->selector] after
\* Check_Size("queue1").
StBackwardGather ==
    /\ st_pc = "FullQueue_Gather"
    /\ st_phase = "backward"
    /\ st_pc' = "FullQueue_Core"
    /\ \E cur_pos \in CurPosChoices(st_offsets),
          pre_pos \in PrePosChoices(PopBack(st_offsets)) :
           /\ st_offsets' = PopBack(st_offsets)
           /\ IF st_iteration > 0 /\ cur_pos - pre_pos > 0
              THEN /\ st_queue_length' = cur_pos - pre_pos
                   /\ st_size' = SizeAfterCheck("keys0", cur_pos - pre_pos)
                   /\ st_growths' = GrowthsAfter("keys0", cur_pos - pre_pos)
                   /\ stream_q' = Append(stream_q,
                          StreamOp("MemsetCopyVectorKernel", cur_pos - pre_pos,
                                   {"keys0", "forward_output"}))
              ELSE /\ st_queue_length' = 0
                   /\ UNCHANGED <<st_size, st_growths, stream_q>>
    /\ UNCHANGED <<st_phase, st_iteration, st_counter, st_produced>>

\* Backward FullQueue_Core: the advance goes on the stream and the call
\* returns.
StBackwardCore ==
    /\ st_pc = "FullQueue_Core"
    /\ st_phase = "backward"
    /\ st_pc' = "Loop_Synchronize"
    /\ stream_q' = Append(stream_q,
                          StreamOp("advance", st_queue_length, {"keys0"}))
    /\ UNCHANGED <<st_phase, st_iteration, st_counter, st_queue_length,
                   st_offsets, st_size, st_produced, st_growths>>

\* The iteration loop synchronizes the stream at the step boundary.
StLoopSynchronize ==
    /\ st_pc = "Loop_Synchronize"
    /\ StreamSynchronized(stream_q)
    /\ st_pc' = "Iteration_Change"
    /\ UNCHANGED <<st_phase, st_iteration, stream_q, st_counter,
                   st_queue_length, st_offsets, st_size, st_produced,
                   st_growths>>

\* Iteration_Change and Stop_Condition of the two loops; the backward loop
\* follows the forward loop.
StIterationChange ==
    /\ st_pc = "Iteration_Change"
    /\ IF st_phase = "forward"
       THEN /\ st_iteration' = st_iteration + 1
            /\ IF (st_queue_length = 0) \/ st_iteration + 1 >= MaxStreamIter
               THEN st_phase' = "backward"
               ELSE st_phase' = "forward"
            /\ st_pc' = "Expand_Incoming"
       ELSE /\ st_iteration' = Backward_Iteration_Change(st_iteration)
            /\ st_phase' = "backward"
            /\ IF (st_iteration - 1 <= 1 /\ st_queue_length = 0)
                  \/ st_iteration - 1 <= 0
               THEN st_pc' = "done"
               ELSE st_pc' = "Expand_Incoming"
    /\ UNCHANGED <<stream_q, st_counter, st_queue_length, st_offsets, st_size,
                   st_produced, st_growths>>

\* The device executes the first operation of the stream.  The filter leaves
\* the length of its output in the counter of the work progress;
\* GetQueueLength copies that counter into the host's queue_length.
StDevice ==
    /\ stream_q # << >>
    /\ stream_q' = Tail(stream_q)
    /\ LET op == Head(stream_q)
       IN  CASE op.kernel = "filter" ->
                    /\ \E len \in IF op.length = 0 THEN {0} ELSE 0 .. MaxLen :
                           /\ st_counter' = len
                           /\ st_produced' = Append(st_produced, len)
                    /\ UNCHANGED st_queue_length
             [] op.kernel = "GetQueueLength" ->
                    /\ st_queue_length' = st_counter
                    /\ UNCHANGED <<st_counter, st_produced>>
             [] OTHER -> UNCHANGED <<st_counter, st_queue_length, st_produced>>
    /\ UNCHANGED <<st_pc, st_phase, st_iteration, st_offsets, st_size,
                   st_growths>>

\* One device's stream: host calls and device execution interleave.
NextStream ==
    \/ StExpandIncoming /\ UNCHANGED nonStreamVars
    \/ StForwardGather /\ UNCHANGED nonStreamVars
    \/ StForwardCore /\ UNCHANGED nonStreamVars
    \/ StSynchronize /\ UNCHANGED nonStreamVars
    \/ StBackwardGather /\ UNCHANGED nonStreamVars
    \/ StBackwardCore /\ UNCHANGED nonStreamVars
    \/ StLoopSynchronize /\ UNCHANGED nonStreamVars
    \/ StIterationChange /\ UNCHANGED nonStreamVars
    \/ StDevice /\ UNCHANGED nonStreamVars

\* The state in which the stream starts; the other parts of the model stay idle.
StartStream ==
    /\ InitEnactor /\ SingleDevice /\ InitWP /\ IdleAdvance /\ IdleCore
    /\ IdleMerge /\ IdleCC /\ InitStream /\ IdleApp /\ IdleBoundary

SpecStream == StartStream /\ [][NextStream]_vars

\* ------------------------------------------------------------- entry points
\* gunrock.h: enum ValueType and enum SrcMode.
ValueTypes == {"VALUE_INT", "VALUE_UINT", "VALUE_FLOAT"}
SrcModes == {"manually", "randomize", "largest_degree"}

\* 32-bit patterns RandomBits can leave in node_id.
RandomBitValues == {INT_MIN, INT_MIN + 1, -3, -1, 0, 1, 5, INT_MAX}

\* node_id *= -1 on a 32-bit int: the product of the most negative value does
\* not fit and wraps to itself on the two's complement builds.
NegateOutcomes(node_id) ==
    IF node_id = INT_MIN THEN {INT_MIN} ELSE {- node_id}

\* The % of C truncates towards zero: the result has the sign of the dividend.
Remainder(a, n) ==
    IF a >= 0 THEN a % n ELSE - ((- (a + n)) % n)

\* RandomNode(num_nodes): if (node_id < 0) node_id *= -1;
\* return node_id % num_nodes;
RandomNode(node_id, num_nodes) ==
    IF node_id < 0
    THEN {Remainder(m, num_nodes) : m \in NegateOutcomes(node_id)}
    ELSE {Remainder(node_id, num_nodes)}

\* A call of gunrock_cc or gunrock_sssp with a <int, int, Value> configuration.
InitApp ==
    /\ app_pc = "call"
    /\ app_alg \in {"cc", "sssp"}
    /\ VALUE_TYPE \in ValueTypes
    /\ source_mode \in SrcModes
    /\ random_bits \in RandomBitValues
    /\ csr_nodes \in 1 .. MaxNodes
    /\ app_src = 0
    /\ node_value1 = "unset"
    /\ app_printed = FALSE

\* dispatch_cc: only VALUE_INT runs instrumentedCC, which sets
\* output->node_value1; the other two cases print a message.
AppDispatchCC ==
    /\ app_pc = "call"
    /\ app_alg = "cc"
    /\ app_pc' = "returned"
    /\ IF VALUE_TYPE = "VALUE_INT"
       THEN node_value1' = "filled" /\ UNCHANGED app_printed
       ELSE app_printed' = TRUE /\ UNCHANGED node_value1
    /\ UNCHANGED <<app_alg, VALUE_TYPE, source_mode, random_bits, csr_nodes,
                   app_src>>

\* dispatchSSSP: only VALUE_INT picks the source by config.source_mode and
\* runs instrumentedSSSP; the other two cases print a message.
AppDispatchSSSP ==
    /\ app_pc = "call"
    /\ app_alg = "sssp"
    /\ app_pc' = "returned"
    /\ IF VALUE_TYPE = "VALUE_INT"
       THEN /\ node_value1' = "filled"
            /\ UNCHANGED app_printed
            /\ CASE source_mode = "randomize" ->
                        app_src' \in RandomNode(random_bits, csr_nodes)
                 [] source_mode = "largest_degree" ->
                        app_src' \in 0 .. csr_nodes - 1
                 [] OTHER -> app_src' = 0
       ELSE /\ app_printed' = TRUE
            /\ UNCHANGED <<node_value1, app_src>>
    /\ UNCHANGED <<app_alg, VALUE_TYPE, source_mode, random_bits, csr_nodes>>

\* One call of an entry point.
NextApp ==
    \/ AppDispatchCC /\ UNCHANGED nonAppVars
    \/ AppDispatchSSSP /\ UNCHANGED nonAppVars

\* The state in which an entry point is called; the other parts of the model stay idle.
StartApp ==
    /\ InitEnactor /\ SingleDevice /\ InitWP /\ IdleAdvance /\ IdleCore
    /\ IdleMerge /\ IdleCC /\ IdleStream /\ InitApp /\ IdleBoundary

SpecApp == StartApp /\ [][NextApp]_vars

\* ------------------------------------------------- between forward and backward
\* The workers of a BC run on several devices, from the end of their forward
\* loops to the start of their backward loops.
BoundaryGpus == 0 .. NumBoundaryGpus - 1

InitBoundary ==
    /\ bb_pc = [g \in BoundaryGpus |-> "fwd"]
    /\ bb_iteration = [g \in BoundaryGpus |-> 0]
    /\ bb_max = [g \in BoundaryGpus |-> 0]
    /\ bb_gpu = [g \in BoundaryGpus |-> 0]
    /\ bb_fwd = [g \in BoundaryGpus |-> 0]
    /\ bb_barrier = <<0, 0>>

\* A barrier that lets every worker pass at once.
BoundaryBarrierSkipped(b) == TRUE

\* IncrementnWaitBarrier returns when all workers have arrived.
BoundaryBarrierOpen(b) == bb_barrier[b] = NumBoundaryGpus

\* One body of the forward loop: Iteration_Change increments the counter.
BbForward(g) ==
    /\ bb_pc[g] = "fwd"
    /\ bb_iteration[g] < MaxIter
    /\ bb_iteration' = [bb_iteration EXCEPT ![g] = @ + 1]
    /\ UNCHANGED <<bb_pc, bb_max, bb_gpu, bb_fwd, bb_barrier>>

\* The forward loop has ended; the worker arrives at cpu_barrier[0].
BbArrive(g) ==
    /\ bb_pc[g] = "fwd"
    /\ bb_pc' = [bb_pc EXCEPT ![g] = "bar0"]
    /\ bb_fwd' = [bb_fwd EXCEPT ![g] = bb_iteration[g]]
    /\ bb_barrier' = [bb_barrier EXCEPT ![1] = @ + 1]
    /\ UNCHANGED <<bb_iteration, bb_max, bb_gpu>>

\* Past cpu_barrier[0]: long max_iteration = 0; gpu = 0.
BbEnter(g) ==
    /\ bb_pc[g] = "bar0"
    /\ BoundaryBarrierOpen(1)
    /\ bb_pc' = [bb_pc EXCEPT ![g] = "scan"]
    /\ bb_max' = [bb_max EXCEPT ![g] = 0]
    /\ bb_gpu' = [bb_gpu EXCEPT ![g] = 0]
    /\ UNCHANGED <<bb_iteration, bb_fwd, bb_barrier>>

\* One turn of the loop over the devices: the worker reads the counter of
\* device bb_gpu and keeps the larger value.
BbScan(g) ==
    /\ bb_pc[g] = "scan"
    /\ bb_gpu[g] < NumBoundaryGpus
    /\ bb_max' = [bb_max EXCEPT ![g] =
                     IF bb_iteration[bb_gpu[g]] > @ THEN bb_iteration[bb_gpu[g]]
                     ELSE @]
    /\ bb_gpu' = [bb_gpu EXCEPT ![g] = @ + 1]
    /\ UNCHANGED <<bb_pc, bb_iteration, bb_fwd, bb_barrier>>

\* enactor_stats[0].iteration = max_iteration; then the boundary values are
\* written and the worker arrives at cpu_barrier[1].
BbStore(g) ==
    /\ bb_pc[g] = "scan"
    /\ bb_gpu[g] = NumBoundaryGpus
    /\ bb_iteration' = [bb_iteration EXCEPT ![g] = bb_max[g]]
    /\ bb_pc' = [bb_pc EXCEPT ![g] = "bar1"]
    /\ bb_barrier' = [bb_barrier EXCEPT ![2] = @ + 1]
    /\ UNCHANGED <<bb_max, bb_gpu, bb_fwd>>

\* Past cpu_barrier[1]: the backward loop starts.
BbBackward(g) ==
    /\ bb_pc[g] = "bar1"
    /\ BoundaryBarrierOpen(2)
    /\ bb_pc' = [bb_pc EXCEPT ![g] = "bwd"]
    /\ UNCHANGED <<bb_iteration, bb_max, bb_gpu, bb_fwd, bb_barrier>>

NextBoundary ==
    \/ (\E g \in BoundaryGpus : BbForward(g)) /\ UNCHANGED nonBoundaryVars
    \/ (\E g \in BoundaryGpus : BbArrive(g)) /\ UNCHANGED nonBoundaryVars
    \/ (\E g \in BoundaryGpus : BbEnter(g)) /\ UNCHANGED nonBoundaryVars
    \/ (\E g \in BoundaryGpus : BbScan(g)) /\ UNCHANGED nonBoundaryVars
    \/ (\E g \in BoundaryGpus : BbStore(g)) /\ UNCHANGED nonBoundaryVars
    \/ (\E g \in BoundaryGpus : BbBackward(g)) /\ UNCHANGED nonBoundaryVars

\* The state in which the forward loops run; the other parts of the model stay idle.
StartBoundary ==
    /\ InitEnactor /\ SingleDevice /\ InitWP /\ IdleAdvance /\ IdleCore
    /\ IdleMerge /\ IdleCC /\ IdleStream /\ IdleApp /\ InitBoundary

SpecBoundary == StartBoundary /\ [][NextBoundary]_vars

\* ------------------------------------------------------------- properties
\* The first run of the enactor is under way or has returned.
FirstRun == runs = 1 /\ cpc # "ready"

\* C1: when Enact has returned, a non-success retval recorded in any
\* per-(device, peer) slot has made Enact return a non-success status.
C1_EnactSurfacesEveryError ==
    (cpc = "returned" /\ AnyError) => enact_retval # cudaSuccess

\* The loop a worker is in, its Stop_Condition, and the completion predicate
\* of the algorithm: no queued work and no pending transfer (forward), the log
\* replayed down to its base offset (backward), every device past its first
\* turn with nothing in flight (CC).
InLoop(g) == wpc[g] \in {"fwd", "bwd", "loop"}

LoopStop(g) ==
    IF wpc[g] = "fwd" THEN Forward_Stop_Condition
    ELSE IF wpc[g] = "bwd" THEN Backward_Stop_Condition
    ELSE CC_Stop_Condition

NaturalCompletion(g) ==
    IF wpc[g] = "fwd"
    THEN \A h \in Devices :
             queue_length[h] = 0 /\ in_length[h] = 0 /\ out_length[h] = 0
    ELSE IF wpc[g] = "bwd"
    THEN \A h \in Devices :
             queue_length[h] = 0 /\ Len(forward_queue_offsets[h]) <= 1
    ELSE IF num_gpus = 1 THEN turn[0] > 0
    ELSE \A h \in Devices :
             turn[h] > 0 /\ in_length[h] = 0 /\ out_length[h] = 0

C3_ReturnAfterAllWorkersDone ==
    (cpc \in {"check", "returned"}) =>
        \A g \in Devices : stats[g] = 4 /\ wpc[g] = "ended"

C3_Witness ==
    /\ cpc = "returned"
    /\ alg = "BC"
    /\ num_gpus > 1
    /\ \A g \in Devices : bwd_iters[g] > 0

\* C4: after Reset on an enactor that has already run, the worker status flags
\* are those of a freshly initialised enactor (-1, or 1 once the worker has
\* called SetDevice), so that a second Enact can start the workers again.
C4_ResetRestoresWorkerFlags ==
    (cpc = "ready" /\ runs >= 1) =>
        \A g \in Devices : stats[g] \in {-1, 1}

\* C5: with several devices, while any worker is in its backward loop every
\* worker has finished its forward loop and has written its boundary sigmas
\* and labels into its peers' data slices.
C5_BackwardAfterAllForward ==
    (alg = "BC" /\ num_gpus > 1 /\ \E g \in Devices : wpc[g] = "bwd") =>
        \A h \in Devices :
            wpc[h] \in {"bar1", "bwd", "ended"} /\ boundary_written[h]

C5_Witness ==
    /\ alg = "BC"
    /\ num_gpus > 1
    /\ \E g \in Devices : wpc[g] = "bwd" /\ bwd_iters[g] > 0
    /\ \E h \in Devices : wpc[h] = "bar1"

\* C6: when a worker of an error-free BC run has ended, its backward loop has
\* run as many bodies as its forward loop, and every one of them replayed a
\* recorded entry of the log.
C6_BackwardMatchesForward ==
    \A g \in Devices :
        (alg = "BC" /\ FirstRun /\ wpc[g] = "ended" /\ ~ AnyError) =>
            /\ bwd_iters[g] = fwd_iters[g]
            /\ gather_kind[g] \in {"none", "replay"}

\* C7: the k-th backward iteration of an error-free BC run has as its input
\* the frontier recorded by the k-th-from-last recorded forward iteration.
C7_ReplayInReverse ==
    \A g \in Devices :
        (alg = "BC" /\ FirstRun /\ ~ AnyError) =>
            \A k \in 1 .. Len(bwd_inputs[g]) :
                /\ k <= Len(recorded[g])
                /\ bwd_inputs[g][k] = recorded[g][Len(recorded[g]) - k + 1]

IsPrefix(s, t) == Len(s) <= Len(t) /\ SubSeq(t, 1, Len(s)) = s
NonDecreasing(s) == \A i \in 1 .. Len(s) - 1 : s[i] <= s[i + 1]

\* C8 (as stated): in an error-free forward phase every executed iteration has
\* recorded its frontier, so the number of recorded frontiers equals the number
\* of iterations.
C8_EveryIterationRecorded ==
    \A g \in Devices :
        (alg = "BC" /\ FirstRun /\ wpc[g] = "fwd" /\ ~ AnyError) =>
            Len(recorded[g]) = fwd_iters[g]

\* C8 (amended): in the forward phase the log only grows at its end and its
\* offsets are non-decreasing; a completed iteration with iteration > 0 appends
\* exactly one offset, the previous end plus the length of its input frontier,
\* and stores that frontier at the previous end of forward_output, while the
\* iteration with iteration = 0 appends nothing.
C8_ForwardLogAppendOnly ==
    [][\A g \in Devices :
          (alg = "BC" /\ wpc[g] = "fwd") =>
              /\ IsPrefix(forward_queue_offsets[g], forward_queue_offsets'[g])
              /\ NonDecreasing(forward_queue_offsets'[g])
              /\ (iteration'[g] = iteration[g] + 1) =>
                     IF iteration[g] > 0
                     THEN /\ forward_queue_offsets'[g] =
                                 Append(forward_queue_offsets[g],
                                        Last(forward_queue_offsets[g])
                                            + queue_length[g])
                          /\ ReadBuf(forward_output'[g],
                                     Last(forward_queue_offsets[g]),
                                     queue_length[g]) = InputFrontier(g)
                     ELSE forward_queue_offsets'[g] = forward_queue_offsets[g]]_vars

C8_Witness ==
    \E g \in Devices :
        /\ alg = "BC"
        /\ wpc[g] = "fwd"
        /\ Len(forward_queue_offsets[g]) >= 3
        /\ forward_queue_offsets[g][2] > 0
        /\ Last(forward_queue_offsets[g]) > forward_queue_offsets[g][2]

\* C9: the length a step without queue_reset loads from the counter of its
\* queue_index, and the length the host reads back at the end of a core, is
\* the number of elements the producing step put out.
C9_LoadedLengthIsProduced ==
    /\ (wp_pc = "kernel" /\ 0 \notin blocks_todo /\ ~ wp_queue_reset) =>
           input_queue_len = produced
    /\ (wp_pc = "host" /\ wp_steps > 0 /\ wp_queue_reset) =>
           wp_queue_length = produced

C9_Witness ==
    /\ wp_pc = "kernel"
    /\ 0 \notin blocks_todo
    /\ ~ wp_queue_reset
    /\ wp_steps >= 3
    /\ input_queue_len > 0

\* C10: once every block of a step with queue index idx has run, the counter of
\* idx + 1 holds the number of elements the blocks wrote, in whatever order
\* the blocks ran.
C10_NextCounterHoldsTotal ==
    /\ (wp_pc = "kernel" /\ blocks_todo = {}) =>
           LoadQueueLength(d_counters, wp_queue_index + 1) = d_out_count
    /\ (wp_pc = "host" /\ wp_steps > 0) =>
           LoadQueueLength(d_counters, wp_queue_index) = produced

C10_Witness ==
    /\ wp_pc = "host"
    /\ wp_steps >= 2
    /\ produced > PartitionSize

\* Number of CondEdge calls made for edge e of frontier slot `slot`.
RECURSIVE EvalCountIn(_, _, _)
EvalCountIn(blocks, slot, e) ==
    IF blocks = {} THEN 0
    ELSE LET b == CHOOSE x \in blocks : TRUE
         IN  Cardinality({x \in cond_evals[b] : x[2] = slot /\ x[3] = e})
             + EvalCountIn(blocks \ {b}, slot, e)
EvalCount(slot, e) == EvalCountIn(DOMAIN cond_evals, slot, e)

\* The edges of the input frontier: <<slot, e>> for every edge e of the
\* vertex in slot `slot`.
FrontierEdges ==
    {<<slot, e>> \in (0 .. AdvLen - 1) \X (0 .. MaxDegree - 1) :
        e < Degree(d_queue[slot])}
VisitedEdges ==
    UNION {{<<x[2], x[3]>> : x \in cond_evals[b]} : b \in DOMAIN cond_evals}

\* C11: when an advance step has finished, CondEdge has been evaluated exactly
\* once for every edge of every element of the input frontier and for nothing
\* else, on the light and on the partitioned path.
C11_EveryEdgeExactlyOnce ==
    adv_pc = "done" =>
        /\ VisitedEdges = FrontierEdges
        /\ \A p \in FrontierEdges : EvalCount(p[1], p[2]) = 1

\* The same for frontiers no longer than the graph has edges.
C11_ShortFrontier ==
    (adv_pc = "done" /\ AdvLen <= max_edge) =>
        /\ VisitedEdges = FrontierEdges
        /\ \A p \in FrontierEdges : EvalCount(p[1], p[2]) = 1
\* The identity element of a reduce operator on 32-bit values.
Identity(op) ==
    CASE op = "PLUS" -> 0
      [] op = "MULTIPLIES" -> 1
      [] op = "MAXIMUM" -> INT_MIN
      [] op = "MINIMUM" -> INT_MAX
      [] op = "BIT_OR" -> 0
      [] op = "BIT_AND" -> ALL_ONES
      [] op = "BIT_XOR" -> 0

\* C12: wherever CondEdge was false, the reduce frontier holds the identity
\* element of the selected reduce operator at that edge's output position, on
\* both paths, with and without predecessor marking.
C12_AbsentEdgeWritesIdentity ==
    \A b \in DOMAIN cond_evals : \A x \in cond_evals[b] :
        ~CondEdge(x[4]) => d_reduce_frontier[x[1]] = Identity(R_OP)
\* C13 as stated: every advance or filter step writes the slot other than
\* the one it reads and leaves selector on the slot just written.
C13_EveryStepFlipsSelector ==
    last_step.n > 0 =>
        /\ last_step.write = 1 - last_step.read
        /\ core_selector = last_step.write

\* C13: a step launched with an output queue reads slot selector, writes
\* slot selector^1 and leaves selector on the slot just written; a step
\* launched without an output queue writes no slot and leaves selector on the
\* slot it read.
C13_SelectorFollowsOutput ==
    last_step.n > 0 =>
        IF last_step.write # NoSlot
        THEN /\ last_step.write = 1 - last_step.read
             /\ core_selector = last_step.write
        ELSE core_selector = last_step.read

C13_Witness ==
    /\ last_step.kernel = "Filter"
    /\ last_step.n >= 4
    /\ last_step.write = 1 - last_step.read
    /\ core_selector = last_step.write
C15_QueueIndexNeverDecreases ==
    last_step.queue_index >= last_step.prev_index

\* C15: from one launch to the next of a run queue_index does not decrease,
\* except where the host restarts the frontier, setting queue_index to 0
\* together with queue_reset = true.
C15_QueueIndexDropsOnlyAtRestart ==
    \/ last_step.queue_index >= last_step.prev_index
    \/ last_step.queue_index = 0 /\ last_step.queue_reset

\* The pointer-jumping loop of CC has counted queue_index up and the next
\* filter is launched at 0 again.
C15_Witness ==
    /\ last_step.kernel = "UpdateMask0"
    /\ last_step.prev_index > 0
    /\ last_step.queue_index = 0
    /\ last_step.queue_reset
\* The arrays after handling the elements of S one after the other, peer by
\* peer and key by key.
RECURSIVE ApplyInOrder(_, _, _)
ApplyInOrder(kind, o, S) ==
    IF S = {} THEN o
    ELSE LET el == CHOOSE e \in S : \A f \in S :
                       \/ e.peer < f.peer
                       \/ e.peer = f.peer /\ e.key <= f.key
         IN  ApplyInOrder(kind, ApplyElement(kind, o, el), S \ {el})

MergeFinished == merge_kind # "none" /\ pending = {} /\ inflight = {}

\* C16: when all elements of a round have been merged, the owner's arrays
\* are what merging them one by one in a fixed order gives, whatever the order
\* in which the threads handled the messages and their elements.
C16_MergeOrderIndependent ==
    MergeFinished => org = ApplyInOrder(merge_kind, merge_init[1], merge_init[2])
\* The vertices reachable from the vertices of S over the edges, taken in
\* both directions.
RECURSIVE Reach(_)
Reach(S) ==
    LET T == S \cup {v \in CCVertices :
                       \E e \in froms_tos : \/ e[1] \in S /\ e[2] = v
                                            \/ e[2] \in S /\ e[1] = v}
    IN  IF T = S THEN S ELSE Reach(T)

Connected(u, v) == v \in Reach({u})

LaterTurnKernels == {"PtrJump", "HookMax", "PtrJumpMask", "PtrJumpUnmask"}

AllDrained ==
    \A h \in Devices :
        queue_length[h] = 0 /\ in_length[h] = 0 /\ out_length[h] = 0

StopWithoutError(g) == InLoop(g) /\ LoopStop(g) /\ ~ AnyError

IsNonEmpty(f) == f # << >>
NonEmptyOf(q) == SelectSeq(q, IsNonEmpty)
ReverseSeq(q) == [k \in 1 .. Len(q) |-> q[Len(q) - k + 1]]

DeviceError(g) ==
    \E peer \in Devices : retval[OwnSlot(g) + peer] # cudaSuccess

\* What the advance/filter steps of device g write: the frontier, its index,
\* the counts of the bodies run, and the statuses they record.
StepState(g) ==
    <<keys[g], queue_index[g], turn[g], fwd_iters[g], bwd_iters[g],
      bwd_inputs[g], [peer \in Devices |-> retval[OwnSlot(g) + peer]]>>

\* C21: once a device has recorded a non-success status, no step of the run
\* launches an advance or filter on that device again, and so none records a
\* failure again; only Reset, which starts a new run, clears the status.
C21_NoStepAfterRecordedError ==
    [][\A g \in Devices :
          (DeviceError(g) /\ ~ (cpc # "ready" /\ cpc' = "ready")) =>
              StepState(g)' = StepState(g)]_vars

\* A device failed in its second forward iteration and its worker has ended.
C21_Witness ==
    \E g \in Devices :
        /\ alg = "BC"
        /\ DeviceError(g)
        /\ fwd_iters[g] > 0
        /\ wpc[g] = "ended"

\* The operations of the given forward step that are still on the stream.
PendingOfStep(n) ==
    {i \in DOMAIN stream_q :
        /\ stream_q[i].phase = "forward"
        /\ stream_q[i].iteration = n
        /\ stream_q[i].kernel \in {"advance", "filter", "GetQueueLength"}}

ForwardAdvances ==
    {i \in DOMAIN stream_q :
        /\ stream_q[i].phase = "forward"
        /\ stream_q[i].kernel = "advance"
        /\ stream_q[i].iteration >= 1}

\* C23: on one device, when the host gathers and launches forward step N+1,
\* the advance, the filter and the length copy of step N have left the stream,
\* the host's queue_length is the length the filter of step N wrote, and the
\* advance of step N+1 is launched with exactly that length.
C23_StepCompleteBeforeNextAdvance ==
    /\ (/\ st_phase = "forward"
        /\ st_iteration >= 1
        /\ st_pc \in {"Expand_Incoming", "FullQueue_Gather", "FullQueue_Core"})
           => /\ PendingOfStep(st_iteration - 1) = {}
              /\ Len(st_produced) = st_iteration
              /\ st_queue_length = st_produced[st_iteration]
    /\ \A i \in ForwardAdvances :
           /\ Len(st_produced) >= stream_q[i].iteration
           /\ stream_q[i].length = st_produced[stream_q[i].iteration]

\* The advance of a second or later forward step is on the stream with a
\* non-empty input frontier.
C23_Witness ==
    \E i \in ForwardAdvances : stream_q[i].length > 0

C25_EveryValueTypeFillsOutput ==
    app_pc = "returned" => node_value1 = "filled"

\* C26: the source picked by RandomNode(num_nodes) lies in [0, num_nodes) for
\* every bit pattern of the random bits and every num_nodes > 0.
C26_RandomNodeInRange ==
    (/\ app_pc = "returned"
     /\ app_alg = "sssp"
     /\ VALUE_TYPE = "VALUE_INT"
     /\ source_mode = "randomize")
        => app_src \in 0 .. csr_nodes - 1


\* C27: every call of Enact eventually returns, the calls after a Reset on the
\* same enactor included.
C27_EveryEnactReturns ==
    (cpc = "wait1") ~> (cpc = "returned")

\* The worker has ended with an error in its own slot while the controller has
\* not yet answered its handshake: SetDevice failed.
FailedBeforeHandshake(g) ==
    /\ cpc = "wait1"
    /\ cgpu <= g
    /\ wpc[g] = "ended"
    /\ retval[OwnSlot(g)] # cudaSuccess

\* C28: when a worker fails before its handshake, Enact still returns, and
\* with a non-success status.
C28_FailedHandshakeStillReturns ==
    (\E g \in Devices : FailedBeforeHandshake(g))
        ~> (cpc = "returned" /\ enact_retval # cudaSuccess)

\* The worker is inside or past its iteration loop.
PastHandshake(g) == wpc[g] \notin {"start", "wait2", "ended"}

\* C29: a worker's status flag never decreases, it becomes 2 only from 1 and
\* 3 only from 2, and a worker in its iteration loop has a flag of 3.
C29_FlagMovesForward ==
    [][\A g \in Devices :
          /\ stats'[g] >= stats[g]
          /\ stats'[g] \in {-1, 1, 2, 3, 4}
          /\ (stats'[g] = 2 /\ stats[g] # 2) => stats[g] = 1
          /\ (stats'[g] = 3 /\ stats[g] # 3) => stats[g] = 2
          /\ PastHandshake(g)' => stats'[g] = 3]_vars

\* A worker has ended after the full handshake and at least one loop body,
\* and the enactor has been reset for a further run.
C29_Witness ==
    \E g \in Devices :
        /\ stats[g] = 4
        /\ retval[OwnSlot(g)] = cudaSuccess
        /\ alg = "BC"
        /\ fwd_iters[g] > 0
        /\ runs = 1
        /\ cpc = "returned"
        /\ num_gpus = 2

\* C30: every backward FullQueue_Gather finds at least two entries in
\* forward_queue_offsets before it pops.
C30_GatherLogHasTwoEntries ==
    \A g \in Devices : gather_kind[g] \in {"none", "replay"}


MaxForward ==
    CHOOSE m \in 0 .. MaxIter :
        /\ \A g \in BoundaryGpus : bb_fwd[g] <= m
        /\ \E g \in BoundaryGpus : bb_fwd[g] = m

\* C32: every device of a BC run on several devices starts its backward loop
\* with the same iteration counter, the largest forward count of all devices.
C32_SameBackwardStart ==
    \A g \in DOMAIN bb_pc :
        bb_pc[g] = "bwd" => bb_iteration[g] = MaxForward

\* All backward loops have started after forward loops of different lengths.
C32_Witness ==
    /\ bb_pc # << >>
    /\ \A g \in BoundaryGpus : bb_pc[g] = "bwd"
    /\ \E g, h \in BoundaryGpus : bb_fwd[g] < bb_fwd[h]


\* The keys that were undiscovered before the round and arrive in it.
NewlyDiscovered ==
    {k \in MergeKeys :
        /\ merge_init[1][k].pred = NoPred
        /\ \E el \in merge_init[2] : el.key = k}

\* C33: after a forward exchange round every newly discovered vertex has been
\* put into the owner's frontier exactly once, however many incoming elements
\* carry it and in whatever order the threads ran.
C33_DiscoveredVertexEmittedOnce ==
    (MergeFinished /\ merge_kind = "Forward") =>
        \A k \in NewlyDiscovered : org[k].emitted = 1


\* The devices whose worker is about to run its first forward body.
AtForwardStart == {g \in Devices : wpc[g] = "fwd" /\ fwd_iters[g] = 0}

\* C34: in a BC run the worker of the device that owns the source starts its
\* forward loop with a frontier of length 1 and every other worker with
\* length 0; Enact has given exactly one device the initial size 1.
C34_OnlyOwnerStartsWithFrontier ==
    alg = "BC" =>
        /\ \A g \in AtForwardStart :
               queue_length[g] = IF num_gpus = 1 \/ g = src_gpu THEN 1 ELSE 0
        /\ cpc \notin {"init", "ready"} =>
               Cardinality({g \in Devices : init_size[g] = 1}) = 1

\* Two workers are at the start of their forward loops.
C34_Witness ==
    /\ alg = "BC"
    /\ num_gpus = 2
    /\ AtForwardStart = Devices


PartitionedRun == adv_path = "partitioned" /\ adv_pc \in {"kernel", "done"}

BlockOutputRange(bid) ==
    {i \in bid * SplitVal .. (bid + 1) * SplitVal - 1 : i < AdvOutputLen}

\* C36: on the two-phase partitioned path every output index a block writes
\* lies in that block's own range, so no two blocks write the same position
\* and nothing is written at or beyond output_queue_len.
C36_BlockWritesOwnRange ==
    PartitionedRun =>
        /\ \A b \in DOMAIN cond_evals : \A x \in cond_evals[b] :
               x[1] \in BlockOutputRange(b)
        /\ \A b, c \in DOMAIN cond_evals :
               b # c => {x[1] : x \in cond_evals[b]} \cap
                        {x[1] : x \in cond_evals[c]} = {}

\* Both blocks have written, and the frontier element at the border of the
\* two ranges has edges in both.
C36_Witness ==
    /\ adv_path = "partitioned"
    /\ adv_pc = "done"
    /\ \A b \in 0 .. BLOCKS - 1 : b \in DOMAIN cond_evals /\ cond_evals[b] # {}
    /\ \E x \in cond_evals[0] : \E y \in cond_evals[1] : x[2] = y[2]

\* All CondEdge calls of the light path on the frontier and scan of this step.
LightVisits == UNION {RelaxLightEdges(bid) : bid \in 0 .. LightBlocks - 1}

AllVisits == UNION {cond_evals[b] : b \in DOMAIN cond_evals}

\* The first argument of CondEdge and ApplyEdge: the label of the step, or
\* with MARK_PREDECESSORS the frontier vertex the edge starts from.
FunctorSource(x) == IF MARK_PREDECESSORS THEN d_queue[x[2]] ELSE Unlabelled

\* CondEdge(label, u, problem, lookup, e_id) without MARK_PREDECESSORS and
\* CondEdge(v, u, problem, lookup, v_index) with it, on the light path of a
\* V2V advance: s_edge_ids is 0 and v_index is the slot inside the block.
\* Each call is <<output position, source, lookup, last argument>>.
LightCalls ==
    {<<x[1], FunctorSource(x), x[4],
       IF MARK_PREDECESSORS THEN x[2] % THREADS ELSE 0>> : x \in LightVisits}

\* CondEdge(label, u, problem, lookup, e_id) and CondEdge(v, u, problem,
\* lookup, e_id) on the partitioned path of a V2V advance: e_id is
\* s_edge_ids[v_index] = 0, and 0 again after a change of vertex.
PartitionedCalls ==
    {<<x[1], FunctorSource(x), x[4], 0>> : x \in AllVisits}

PartitionedDone == adv_path = "partitioned" /\ adv_pc = "done"

\* C37: for the same input frontier and graph the two-phase partitioned path
\* calls CondEdge and ApplyEdge with the same arguments for each edge as the
\* light path and fills the same output positions.
C37_PathsAgree == PartitionedDone => PartitionedCalls = LightCalls

\* The two paths visit the same edges of the same frontier slots and fill the
\* same output positions; only the last functor argument can differ.
C37_SameEdgesAndPositions == PartitionedDone => AllVisits = LightVisits

\* Without MARK_PREDECESSORS the calls of the two paths are the same.
C37_AgreeWithoutPredecessors ==
    (PartitionedDone /\ ~MARK_PREDECESSORS) => PartitionedCalls = LightCalls


====
